---- MODULE Spec2Model ----
(***************************************************************************)
(* A model of the binary decoding and re-encoding pipeline of xc3_lib /    *)
(* xc3_model: streaming entry extraction (msmd.rs), the texture container  *)
(* reader and writer (mibl.rs) and the vertex / index / morph engine       *)
(* (xc3_model/src/vertex.rs).                                              *)
(*                                                                         *)
(* Byte strings are sequences over 0..255.  Multi-byte integers are        *)
(* assembled and split by endianness.  f32 values that are only moved      *)
(* (positions, texture coordinates) are kept as their four bytes in        *)
(* most-significant-first order; f32 values that are computed              *)
(* (normalized integers) are modelled by exact binary32 arithmetic with    *)
(* round-to-nearest-even on a 24 bit significand.                          *)
(***************************************************************************)
EXTENDS Integers, Sequences, FiniteSets, TLC

\* Each variable holds the state of one part of the pipeline: its inputs,
\* the position of the run (pc) and the values produced so far.
VARIABLES
    stream,     \* StreamEntry extraction from the companion (.wismda) bytes
    vertex,     \* vertex buffer decode and re-encode
    index,      \* index buffer decode and re-encode
    morph,      \* morph target decode and re-encode
    layout,     \* ModelBuffers::to_vertex_data
    mibl,       \* texture container read and write
    map         \* map loading: the texture cache and the parallel extractions

vars == <<stream, vertex, index, morph, layout, mibl, map>>

\* The value of a part that takes no step in a specification.
Idle == [pc |-> "idle"]

None == [tag |-> "none"]

----------------------------------------------------------------------------
(* Elementary helpers.                                                     *)

Byte == 0..255

Min(a, b) == IF a < b THEN a ELSE b

Max(a, b) == IF a > b THEN a ELSE b

RECURSIVE Pow2(_)
Pow2(n) == IF n <= 0 THEN 1 ELSE 2 * Pow2(n - 1)

\* Number of significant bits of a natural number (0 for 0).
RECURSIVE BitLen(_)
BitLen(n) == IF n <= 0 THEN 0 ELSE 1 + BitLen(n \div 2)

Zeros(n) == [i \in 1..n |-> 0]

\* u64::next_multiple_of
NextMultipleOf(n, a) == ((n + a - 1) \div a) * a

----------------------------------------------------------------------------
(* binary32 arithmetic.  A finite f32 is [sign, m, e] with value           *)
(* (-1)^sign * m * 2^e and either m = 0 or 2^23 <= m < 2^24.               *)

F32Zero(sign) == [sign |-> sign, m |-> 0, e |-> 0]

\* Round the positive integer n (below 2^31), scaled by 2^sh, to 24 bits,
\* to nearest and ties to even.
F32RoundInt(sign, n, sh) ==
    LET Round(q, r, half, k) ==
            IF (r > half) \/ (r = half /\ q % 2 = 1)
            THEN IF q + 1 = Pow2(24)
                 THEN [sign |-> sign, m |-> Pow2(23), e |-> sh + k + 1]
                 ELSE [sign |-> sign, m |-> q + 1, e |-> sh + k]
            ELSE [sign |-> sign, m |-> q, e |-> sh + k]
        Norm(len) ==
            IF len <= 24
            THEN [sign |-> sign, m |-> n * Pow2(24 - len), e |-> sh - (24 - len)]
            ELSE Round(n \div Pow2(len - 24), n % Pow2(len - 24), Pow2(len - 25),
                       len - 24)
    IN IF n = 0 THEN F32Zero(sign) ELSE Norm(BitLen(n))

\* `i as f32` for an integer of magnitude below 2^24 (exact).
F32FromInt(i) ==
    IF i < 0 THEN F32RoundInt(1, -i, 0) ELSE F32RoundInt(0, i, 0)

\* 23 further quotient bits of num / den, where den <= num < 2 * den.
\* The state is <<quotient so far, remainder>>.
RECURSIVE F32DivBits(_, _, _)
F32DivBits(qr, den, steps) ==
    IF steps = 0 THEN qr
    ELSE IF 2 * qr[2] >= den
         THEN F32DivBits(<<2 * qr[1] + 1, 2 * qr[2] - den>>, den, steps - 1)
         ELSE F32DivBits(<<2 * qr[1], 2 * qr[2]>>, den, steps - 1)

\* `n as f32 / d` for integers n (|n| < 2^16) and d (0 < d < 2^16),
\* rounded to nearest, ties to even.
F32DivInt(n, d) ==
    LET \* qr: the 24 bit quotient and the remainder of num / den
        Round(sign, qr, den, ex) ==
            IF (2 * qr[2] > den) \/ (2 * qr[2] = den /\ qr[1] % 2 = 1)
            THEN IF qr[1] + 1 = Pow2(24)
                 THEN [sign |-> sign, m |-> Pow2(23), e |-> ex - 23 + 1]
                 ELSE [sign |-> sign, m |-> qr[1] + 1, e |-> ex - 23]
            ELSE [sign |-> sign, m |-> qr[1], e |-> ex - 23]
        \* scale so that den <= num < 2 * den; the quotient is in [1, 2)
        Quotient(sign, num0, den0, s0) ==
            IF num0 < den0
            THEN Round(sign, F32DivBits(<<1, 2 * num0 - den0>>, den0, 23), den0, -s0 - 1)
            ELSE Round(sign, F32DivBits(<<1, num0 - den0>>, den0, 23), den0, -s0)
        Scale(sign, a, s0) ==
            IF s0 >= 0 THEN Quotient(sign, a * Pow2(s0), d, s0)
            ELSE Quotient(sign, a, d * Pow2(-s0), s0)
    IN IF n = 0 THEN F32Zero(0)
       ELSE IF n < 0 THEN Scale(1, -n, BitLen(d) - BitLen(-n))
       ELSE Scale(0, n, BitLen(d) - BitLen(n))

\* `x * d` for a positive integer d below 2^16, rounded to nearest even.
\* The exact product x.m * d (up to 40 bits) is kept as hi * 2^12 + lo.
F32MulInt(x, d) ==
    LET Round(q, r, half, e) ==
            IF (r > half) \/ (r = half /\ q % 2 = 1)
            THEN IF q + 1 = Pow2(24)
                 THEN [sign |-> x.sign, m |-> Pow2(23), e |-> e + 1]
                 ELSE [sign |-> x.sign, m |-> q + 1, e |-> e]
            ELSE [sign |-> x.sign, m |-> q, e |-> e]
        \* drop the k low bits of the product (7 <= k <= 16)
        Drop(hi, lo, k) ==
            IF k >= 12
            THEN Round(hi \div Pow2(k - 12), (hi % Pow2(k - 12)) * 4096 + lo,
                       Pow2(k - 1), x.e + k)
            ELSE Round(hi * Pow2(12 - k) + (lo \div Pow2(k)), lo % Pow2(k),
                       Pow2(k - 1), x.e + k)
        Product(hi, lo) ==
            IF BitLen(hi) + 12 <= 30 THEN F32RoundInt(x.sign, hi * 4096 + lo, x.e)
            ELSE Drop(hi, lo, BitLen(hi) + 12 - 24)
        Split(mh, b) == Product(mh * d + (b \div 4096), b % 4096)
    IN IF x.m = 0 THEN F32Zero(x.sign)
       ELSE Split(x.m \div 4096, (x.m % 4096) * d)

\* `x * 2.0` (exact).
F32Double(x) == IF x.m = 0 THEN x ELSE [x EXCEPT !.e = @ + 1]

\* `x - 1.0` for 0 <= x <= 2 (x = 0 or x >= 2^-7), rounded to nearest even.
F32MinusOne(x) ==
    LET Diff(n, e) == IF n >= 0 THEN F32RoundInt(0, n, e) ELSE F32RoundInt(1, -n, e)
    IN IF x.m = 0 THEN [sign |-> 1, m |-> Pow2(23), e |-> -23]
       \* x = x.m * 2^(t - 23) with t = x.e + 23, -7 <= t <= 1
       ELSE IF x.e + 23 >= 0 THEN Diff(x.m * Pow2(x.e + 23) - Pow2(23), -23)
       ELSE Diff(x.m - Pow2(-x.e), x.e)

\* Truncation toward zero of a finite f32.
F32Trunc(x) ==
    IF x.m = 0 THEN 0
    ELSE LET mag == IF x.e >= 0 THEN x.m * Pow2(Min(x.e, 6))
                    ELSE IF -x.e >= 24 THEN 0 ELSE x.m \div Pow2(-x.e)
         IN IF x.sign = 1 THEN -mag ELSE mag

\* Rust's saturating float to integer cast `x as uN` / `x as iN`.
F32ToIntSat(x, lo, hi) == Max(lo, Min(hi, F32Trunc(x)))

----------------------------------------------------------------------------
(* Byte level primitives: endian-tagged scalars, the read cursor over an   *)
(* immutable slice and the write cursor over a growable vector.            *)

Endians == {"Little", "Big"}

\* A u16 from its two bytes in stream order.
U16FromBytes(b, endian) ==
    IF endian = "Little" THEN b[1] + 256 * b[2] ELSE 256 * b[1] + b[2]

U16ToBytes(v, endian) ==
    IF endian = "Little" THEN <<v % 256, v \div 256>> ELSE <<v \div 256, v % 256>>

\* A 32 bit word (u32 or the bits of an f32) is kept as its four bytes,
\* most significant first, so that no 32 bit quantity is ever formed.
W32FromBytes(b, endian) ==
    IF endian = "Little" THEN <<b[4], b[3], b[2], b[1]>> ELSE <<b[1], b[2], b[3], b[4]>>

W32ToBytes(w, endian) ==
    IF endian = "Little" THEN <<w[4], w[3], w[2], w[1]>> ELSE <<w[1], w[2], w[3], w[4]>>

\* A small natural number as a 32 bit word and back.
W32FromNat(n) == <<0, (n \div 65536) % 256, (n \div 256) % 256, n % 256>>

W32ToNat(w) == ((w[1] * 256 + w[2]) * 256 + w[3]) * 256 + w[4]

\* `b as i8` and `i as u8` reinterpretations.
I8FromByte(b) == IF b >= 128 THEN b - 256 ELSE b

I8ToByte(i) == (i + 256) % 256

Err == [tag |-> "err"]

Ok(v) == [tag |-> "ok", value |-> v]

IsOk(r) == r.tag = "ok"

\* Cursor::seek(Start(offset)) followed by read_exact of n bytes:
\* UnexpectedEof unless the slice holds all of them.
ReadExact(buffer, offset, n) ==
    IF offset + n > Len(buffer) THEN Err
    ELSE Ok([i \in 1..n |-> buffer[offset + i]])

\* Cursor<Vec<u8>>: the vector and the position.
NewWriter(bytes) == [buf |-> bytes, pos |-> Len(bytes)]

WSeek(w, p) == [w EXCEPT !.pos = p]

\* write_all: overwrite at the position, zero-fill a gap left by a seek
\* past the end, grow the vector as needed.  Nothing happens for no bytes.
WWrite(w, bytes) ==
    IF Len(bytes) = 0 THEN w
    ELSE [buf |-> (IF w.pos <= Len(w.buf) THEN SubSeq(w.buf, 1, w.pos)
                   ELSE w.buf \o Zeros(w.pos - Len(w.buf)))
                  \o bytes
                  \o SubSeq(w.buf, w.pos + Len(bytes) + 1, Len(w.buf)),
          pos |-> w.pos + Len(bytes)]

----------------------------------------------------------------------------
(* Attribute codecs (vertex.rs, read_* and write_* item functions).        *)

Chunk(b, k, n) == [i \in 1..n |-> b[(k - 1) * n + i]]

RECURSIVE Flatten(_)
Flatten(ss) == IF Len(ss) = 0 THEN <<>> ELSE Head(ss) \o Flatten(Tail(ss))

read_u16x2(b, endian) == [k \in 1..2 |-> U16FromBytes(Chunk(b, k, 2), endian)]

read_u8x4(b, endian) == [k \in 1..4 |-> b[k]]

read_f32x2(b, endian) == [k \in 1..2 |-> W32FromBytes(Chunk(b, k, 4), endian)]

read_f32x3(b, endian) == [k \in 1..3 |-> W32FromBytes(Chunk(b, k, 4), endian)]

read_unorm8x4(b, endian) == [k \in 1..4 |-> F32DivInt(b[k], 255)]

read_snorm8x4(b, endian) == [k \in 1..4 |-> F32DivInt(I8FromByte(b[k]), 127)]

read_unorm16x4(b, endian) ==
    [k \in 1..4 |-> F32DivInt(U16FromBytes(Chunk(b, k, 2), endian), 65535)]

write_u16x2(value, endian) == Flatten([k \in 1..2 |-> U16ToBytes(value[k], endian)])

write_u8x4(value, endian) == value

write_f32x2(value, endian) == Flatten([k \in 1..2 |-> W32ToBytes(value[k], endian)])

write_f32x3(value, endian) == Flatten([k \in 1..3 |-> W32ToBytes(value[k], endian)])

write_u32(value, endian) == W32ToBytes(value, endian)

write_unorm8x4(value, endian) ==
    [k \in 1..4 |-> F32ToIntSat(F32MulInt(value[k], 255), 0, 255)]

write_unorm16x4(value, endian) ==
    Flatten([k \in 1..4 |->
        U16ToBytes(F32ToIntSat(F32MulInt(value[k], 65535), 0, 65535), endian)])

\* A writer that scales by 128.
write_snorm8x4_scale128(value, endian) ==
    [k \in 1..4 |-> I8ToByte(F32ToIntSat(F32MulInt(value[k], 128), -128, 127))]

write_snorm8x4(value, endian) ==
    [k \in 1..4 |-> I8ToByte(F32ToIntSat(F32MulInt(value[k], 127), -128, 127))]

\* The number of bytes an item codec consumes.
CodecSize(codec) ==
    CASE codec = "f32x3" -> 12
      [] codec \in {"f32x2", "unorm16x4"} -> 8
      [] OTHER -> 4

read_item(codec, b, endian) ==
    CASE codec = "f32x3" -> read_f32x3(b, endian)
      [] codec = "f32x2" -> read_f32x2(b, endian)
      [] codec = "u16x2" -> read_u16x2(b, endian)
      [] codec = "u8x4" -> read_u8x4(b, endian)
      [] codec = "unorm8x4" -> read_unorm8x4(b, endian)
      [] codec = "snorm8x4" -> read_snorm8x4(b, endian)
      [] codec = "unorm16x4" -> read_unorm16x4(b, endian)

write_item(codec, value, endian) ==
    CASE codec = "f32x3" -> write_f32x3(value, endian)
      [] codec = "f32x2" -> write_f32x2(value, endian)
      [] codec = "u16x2" -> write_u16x2(value, endian)
      [] codec = "u8x4" -> write_u8x4(value, endian)
      [] codec = "u32" -> write_u32(value, endian)
      [] codec = "unorm8x4" -> write_unorm8x4(value, endian)
      [] codec = "snorm8x4" -> write_snorm8x4(value, endian)
      [] codec = "unorm16x4" -> write_unorm16x4(value, endian)

----------------------------------------------------------------------------
(* Vertex attributes: xc3_lib::vertex::DataType, AttributeData and the     *)
(* interleaved buffer decode / encode of xc3_model/src/vertex.rs.          *)

\* Every DataType the decoder matches on, in the order of read_attribute.
DataTypes ==
    << "Position", "SkinWeights2", "BoneIndices2", "WeightIndex", "WeightIndex2",
       "TexCoord0", "TexCoord1", "TexCoord2", "TexCoord3", "TexCoord4",
       "TexCoord5", "TexCoord6", "TexCoord7", "TexCoord8", "Blend",
       "Unk15", "Unk16", "VertexColor", "Unk18", "Unk24", "Unk25", "Unk26",
       "Normal", "Tangent", "Unk30", "Unk31", "Normal2", "Unk33", "Normal3",
       "VertexColor3", "Position2", "Normal4", "OldPosition", "Tangent2",
       "SkinWeights", "BoneIndices", "Flow" >>

TexCoords ==
    { "TexCoord0", "TexCoord1", "TexCoord2", "TexCoord3", "TexCoord4",
      "TexCoord5", "TexCoord6", "TexCoord7", "TexCoord8" }

\* read_attribute: the item reader chosen for a data type, "none" for the
\* types that decode to None.
ReadCodec(data_type) ==
    CASE data_type \in {"Position", "SkinWeights2", "Position2", "OldPosition"} -> "f32x3"
      [] data_type \in {"BoneIndices2", "BoneIndices"} -> "u8x4"
      [] data_type = "WeightIndex" -> "u16x2"
      [] data_type \in TexCoords -> "f32x2"
      [] data_type \in {"Blend", "VertexColor", "Normal4", "Tangent2"} -> "unorm8x4"
      [] data_type \in {"Normal", "Tangent", "Normal2"} -> "snorm8x4"
      [] data_type = "SkinWeights" -> "unorm16x4"
      [] OTHER -> "none"

\* read_attribute: the AttributeData variant a data type decodes to.
ReadVariant(data_type) == IF data_type = "Normal2" THEN "Normal" ELSE data_type

\* AttributeData::write: the item writer of a variant.
WriteCodec(variant) ==
    CASE variant \in {"Position", "Position2", "OldPosition", "SkinWeights2"} -> "f32x3"
      [] variant \in {"Normal", "Tangent"} -> "snorm8x4"
      [] variant \in TexCoords -> "f32x2"
      [] variant \in {"VertexColor", "Blend", "Normal4", "Tangent2"} -> "unorm8x4"
      [] variant = "WeightIndex" -> "u16x2"
      [] variant = "SkinWeights" -> "unorm16x4"
      [] variant \in {"BoneIndices", "BoneIndices2"} -> "u8x4"

\* AttributeData::data_type
data_type(a) == a.variant

\* From<DataType> for VertexAttribute: the byte size of a data type.
DataSize(dt) ==
    CASE dt \in {"Position", "Position2", "OldPosition", "SkinWeights2"} -> 12
      [] dt \in TexCoords \cup {"SkinWeights"} -> 8
      [] OTHER -> 4

VertexAttribute(dt) == [data_type |-> dt, data_size |-> DataSize(dt)]

\* read_data: one item per vertex at offset + i * vertex_size +
\* relative_offset; the first short read fails the whole array.
RECURSIVE read_data_from(_, _, _, _, _, _, _, _, _)
read_data_from(i, values, offset, vertex_count, vertex_size, relative_offset, buffer, endian, codec) ==
    LET Item(r) ==
            IF ~IsOk(r) THEN Err
            ELSE read_data_from(i + 1, Append(values, read_item(codec, r.value, endian)),
                                offset, vertex_count, vertex_size, relative_offset,
                                buffer, endian, codec)
    IN IF i >= vertex_count THEN Ok(values)
       ELSE Item(ReadExact(buffer, offset + i * vertex_size + relative_offset,
                           CodecSize(codec)))

read_data(offset, vertex_count, vertex_size, relative_offset, buffer, endian, codec) ==
    read_data_from(0, <<>>, offset, vertex_count, vertex_size, relative_offset,
                   buffer, endian, codec)

\* read_attribute: Some(variant(values)) or None, as a sequence of 0 or 1.
read_attribute(a, data_offset, vertex_count, vertex_size, relative_offset, buffer, endian) ==
    LET Some(r) ==
            IF IsOk(r)
            THEN << [variant |-> ReadVariant(a.data_type), values |-> r.value] >>
            ELSE <<>>
    IN IF ReadCodec(a.data_type) = "none" THEN <<>>
       ELSE Some(read_data(data_offset, vertex_count, vertex_size, relative_offset,
                           buffer, endian, ReadCodec(a.data_type)))

\* The relative offset of the k-th attribute: the running sum that
\* read_vertex_attributes advances after every attribute, decoded or not.
RECURSIVE RelativeOffset(_, _)
RelativeOffset(attrs, k) ==
    IF k <= 1 THEN 0 ELSE RelativeOffset(attrs, k - 1) + attrs[k - 1].data_size

RECURSIVE read_vertex_attributes_from(_, _, _, _, _, _, _)
read_vertex_attributes_from(k, data_offset, vertex_count, vertex_size, attrs, buffer, endian) ==
    IF k > Len(attrs) THEN <<>>
    ELSE read_attribute(attrs[k], data_offset, vertex_count, vertex_size,
                        RelativeOffset(attrs, k), buffer, endian)
         \o read_vertex_attributes_from(k + 1, data_offset, vertex_count, vertex_size,
                                        attrs, buffer, endian)

read_vertex_attributes(data_offset, vertex_count, vertex_size, attrs, buffer, endian) ==
    read_vertex_attributes_from(1, data_offset, vertex_count, vertex_size, attrs,
                                buffer, endian)

\* write_data: seek to offset + i * stride and write item i, for each item.
RECURSIVE write_data_from(_, _, _, _, _, _, _)
write_data_from(i, w, values, offset, stride, endian, codec) ==
    IF i >= Len(values) THEN w
    ELSE write_data_from(i + 1,
            WWrite(WSeek(w, offset + i * stride), write_item(codec, values[i + 1], endian)),
            values, offset, stride, endian, codec)

write_data(w, values, offset, stride, endian, codec) ==
    write_data_from(0, w, values, offset, stride, endian, codec)

\* AttributeData::write
attribute_write(a, w, offset, stride, endian) ==
    write_data(w, a.values, offset, stride, endian, WriteCodec(a.variant))

RECURSIVE SumSizes(_)
SumSizes(attrs) ==
    IF Len(attrs) = 0 THEN 0 ELSE Head(attrs).data_size + SumSizes(Tail(attrs))

RECURSIVE write_attributes_from(_, _, _, _, _, _, _)
write_attributes_from(k, w, offset, attrs, attribute_data, vertex_size, endian) ==
    IF k > Len(attrs) THEN w
    ELSE write_attributes_from(k + 1,
            attribute_write(attribute_data[k], w, offset, vertex_size, endian),
            offset + attrs[k].data_size, attrs, attribute_data, vertex_size, endian)

\* write_vertex_buffer: the descriptor and the writer after the write, or
\* a panic on `attribute_data[0]` when there is no attribute.
write_vertex_buffer(w, attribute_data, endian) ==
    LET Write(attrs, vertex_size) ==
            [tag |-> "ok",
             writer |-> write_attributes_from(1, w, w.pos, attrs, attribute_data,
                                              vertex_size, endian),
             descriptor |-> [data_offset  |-> w.pos,
                             vertex_count |-> Len(attribute_data[1].values),
                             vertex_size  |-> vertex_size,
                             attributes   |-> attrs]]
        Sized(attrs) == Write(attrs, SumSizes(attrs))
    IN IF Len(attribute_data) = 0 THEN [tag |-> "panic"]
       ELSE Sized([k \in 1..Len(attribute_data) |->
                      VertexAttribute(data_type(attribute_data[k]))])

----------------------------------------------------------------------------
(* Inputs: byte blobs and descriptors.                                     *)

MaxAttributes == 2

MaxVertices == 2

MaxDataOffset == 1

NumSeeds == 2

\* The bytes of an input blob: every byte value occurs, at every residue.
PatternByte(seed, j) == (seed * 101 + j * 37) % 256

PatternBytes(seed, n) == [j \in 1..n |-> PatternByte(seed, j)]

Seeds == 0..(NumSeeds - 1)

\* Attribute lists: up to MaxAttributes types taken from DataTypes at a
\* fixed step, so that every type occurs at every position.
AttributeSteps == {1, 11}

AttributeLists ==
    { [k \in 1..n |->
          VertexAttribute(DataTypes[((s - 1 + (k - 1) * st) % Len(DataTypes)) + 1])]
      : s \in 1..Len(DataTypes), n \in 0..MaxAttributes, st \in AttributeSteps }

\* Bytes between the last attribute and the next vertex.
StridePads == {0, 4}

\* Bytes missing at the end of a truncated blob.
Cuts == {0, 1}

VertexDescriptors ==
    { [data_offset |-> o, vertex_count |-> n,
       vertex_size |-> SumSizes(attrs) + pad, attributes |-> attrs]
      : o \in 0..MaxDataOffset, n \in 0..MaxVertices,
        attrs \in AttributeLists, pad \in StridePads }

\* The bytes after the last attribute of the last vertex are not part of it.
VertexDataEnd(d) ==
    IF d.vertex_count = 0 THEN d.data_offset
    ELSE d.data_offset + (d.vertex_count - 1) * d.vertex_size + SumSizes(d.attributes)

----------------------------------------------------------------------------
(* Vertex buffer decode and re-encode.                                     *)

InitVertex ==
    /\ vertex \in
         { [pc |-> "start", endian |-> en, descriptor |-> d,
            buffer |-> PatternBytes(seed, Max(0, VertexDataEnd(d) - cut)),
            attributes |-> None, writer |-> None, new_descriptor |-> None]
           : en \in Endians, d \in VertexDescriptors, seed \in Seeds, cut \in Cuts }
    /\ stream = Idle /\ index = Idle /\ morph = Idle /\ layout = Idle /\ mibl = Idle /\ map = Idle

\* read_vertex_attributes on the descriptor's fields.
ReadVertexAttributes ==
    /\ vertex.pc = "start"
    /\ vertex' = [vertex EXCEPT
          !.pc = "decoded",
          !.attributes = read_vertex_attributes(
                            vertex.descriptor.data_offset, vertex.descriptor.vertex_count,
                            vertex.descriptor.vertex_size, vertex.descriptor.attributes,
                            vertex.buffer, vertex.endian)]
    /\ UNCHANGED <<map, stream, index, morph, layout, mibl>>

\* write_vertex_buffer of the decoded attributes, the writer standing at
\* the descriptor's data offset.
WriteVertexBuffer ==
    /\ vertex.pc = "decoded"
    /\ LET w0 == NewWriter(Zeros(vertex.descriptor.data_offset))
           r  == write_vertex_buffer(w0, vertex.attributes, vertex.endian)
       IN vertex' = IF r.tag = "ok"
                    THEN [vertex EXCEPT !.pc = "written", !.writer = r.writer,
                                        !.new_descriptor = r.descriptor]
                    ELSE [vertex EXCEPT !.pc = "panic"]
    /\ UNCHANGED <<map, stream, index, morph, layout, mibl>>

NextVertex == ReadVertexAttributes \/ WriteVertexBuffer

SpecVertex == InitVertex /\ [][NextVertex]_vars

\* The attribute at position k has a reader and all its items lie in the blob.
DecodableAt(v, k) ==
    LET d      == v.descriptor
        codec  == ReadCodec(d.attributes[k].data_type)
        before == SumSizes(SubSeq(d.attributes, 1, k - 1))
    IN /\ codec # "none"
       /\ \/ d.vertex_count = 0
          \/ d.data_offset + (d.vertex_count - 1) * d.vertex_size + before
               + CodecSize(codec) <= Len(v.buffer)

\* The array the attribute at position k must decode to: item i is read
\* at data_offset + i * stride + the sizes of the attributes before k.
ExpectedAttribute(v, k) ==
    LET d      == v.descriptor
        codec  == ReadCodec(d.attributes[k].data_type)
        before == SumSizes(SubSeq(d.attributes, 1, k - 1))
    IN [variant |-> ReadVariant(d.attributes[k].data_type),
        values  |-> [i \in 1..d.vertex_count |->
                       read_item(codec,
                                 [j \in 1..CodecSize(codec) |->
                                    v.buffer[d.data_offset + (i - 1) * d.vertex_size
                                             + before + j]],
                                 v.endian)]]

DecodablePositions(v) ==
    SelectSeq([k \in 1..Len(v.descriptor.attributes) |-> k],
              LAMBDA k : DecodableAt(v, k))

\* What the decoder does yield: one array per attribute that has a codec
\* and whose items all lie in the blob, in descriptor order, each item read
\* at data_offset + i * stride + (the byte sizes of all attributes listed
\* before it, decoded or not).
DecodableAttributesDecoded ==
    vertex.pc \in {"decoded", "written", "panic"} =>
        LET at == DecodablePositions(vertex)
        IN vertex.attributes = [n \in 1..Len(at) |-> ExpectedAttribute(vertex, at[n])]

\* C2: decoding a vertex buffer yields one array of vertex_count values
\* per attribute of the descriptor, in descriptor order, and the value of
\* vertex i of attribute a is read with a's codec at data_offset +
\* i * stride + the byte sizes of all attributes listed before a.
C2_DecodeAddresses ==
    vertex.pc \in {"decoded", "written", "panic"} =>
        /\ Len(vertex.attributes) = Len(vertex.descriptor.attributes)
        /\ \A k \in 1..Len(vertex.attributes) :
              /\ Len(vertex.attributes[k].values) = vertex.descriptor.vertex_count
              /\ DecodableAt(vertex, k) =>
                    vertex.attributes[k] = ExpectedAttribute(vertex, k)

\* A vertex buffer as C3 takes it: at least one attribute, every attribute
\* of a decoded kind, the stride equal to the attribute sizes, and a blob
\* that holds every vertex.
C3_Applies ==
    /\ Len(vertex.descriptor.attributes) >= 1
    /\ \A k \in 1..Len(vertex.descriptor.attributes) :
          ReadCodec(vertex.descriptor.attributes[k].data_type) # "none"
    /\ vertex.descriptor.vertex_size = SumSizes(vertex.descriptor.attributes)
    /\ Len(vertex.buffer) >= VertexDataEnd(vertex.descriptor)

\* C3: decoding such a buffer and re-encoding it at the same data offset
\* yields the input bytes and a descriptor equal to the original.
C3_RoundTrip ==
    (vertex.pc \in {"written", "panic"} /\ C3_Applies) =>
        /\ vertex.pc = "written"
        /\ Len(vertex.writer.buf) = VertexDataEnd(vertex.descriptor)
        /\ \A j \in (vertex.descriptor.data_offset + 1)..VertexDataEnd(vertex.descriptor) :
              vertex.writer.buf[j] = vertex.buffer[j]
        /\ vertex.new_descriptor = vertex.descriptor

\* The data types with a reserved or unknown meaning.
UnknownTypes ==
    { "Unk15", "Unk16", "Unk18", "Unk24", "Unk25", "Unk26", "Unk30", "Unk31", "Unk33" }

\* C19: a vertex buffer whose attribute list holds a reserved or unknown
\* type code is rejected with an error, so a decode that returns
\* attributes has seen none: it never returns the other attributes with
\* that one left out.
C19_UnknownRejected ==
    vertex.pc \in {"decoded", "written", "panic"} =>
        \A k \in 1..Len(vertex.descriptor.attributes) :
            vertex.descriptor.attributes[k].data_type \notin UnknownTypes

\* What the decoder does with them: the attribute is left out and the
\* others are returned.
UnknownOmitted ==
    vertex.pc \in {"decoded", "written", "panic"} =>
        /\ \A n \in 1..Len(vertex.attributes) :
              vertex.attributes[n].variant \notin UnknownTypes
        /\ Len(vertex.attributes) <= Len(vertex.descriptor.attributes)

\* C20: a vertex buffer whose descriptor addresses bytes past the end of
\* the blob fails to decode with an unexpected end of data and publishes
\* no values, so a decode that returns attributes has found every item of
\* every attribute it reads inside the blob.
C20_OutOfBoundsFails ==
    vertex.pc \in {"decoded", "written", "panic"} =>
        \A k \in 1..Len(vertex.descriptor.attributes) :
            ReadCodec(vertex.descriptor.attributes[k].data_type) # "none"
                => DecodableAt(vertex, k)

----------------------------------------------------------------------------
(* Index buffer decode and re-encode.                                      *)

MaxIndices == 3

\* Bytes that follow the indices in the blob.
Trailers == {0, 2}

IndexDescriptors ==
    { [data_offset |-> o, index_count |-> n,
       primitive_type |-> "TriangleList", index_format |-> "Uint16",
       unk3 |-> 0, unk4 |-> 0]
      : o \in 0..MaxDataOffset, n \in 0..MaxIndices }

\* A reader that stops one index short.
RECURSIVE read_indices_short(_, _, _)
read_indices_short(d, buffer, endian) ==
    IF d.index_count <= 1 THEN Ok(<<>>)
    ELSE LET r == ReadExact(buffer, d.data_offset, 2) IN
         IF ~IsOk(r) THEN Err
         ELSE LET rest == read_indices_short(
                             [d EXCEPT !.data_offset = @ + 2, !.index_count = @ - 1],
                             buffer, endian)
              IN IF IsOk(rest)
                 THEN Ok(<<U16FromBytes(r.value, endian)>> \o rest.value)
                 ELSE Err

\* read_indices: index_count u16 values read one after the other from
\* data_offset; a short read fails the call.
RECURSIVE read_indices(_, _, _)
read_indices(d, buffer, endian) ==
    IF d.index_count = 0 THEN Ok(<<>>)
    ELSE LET r == ReadExact(buffer, d.data_offset, 2) IN
         IF ~IsOk(r) THEN Err
         ELSE LET rest == read_indices(
                             [d EXCEPT !.data_offset = @ + 2, !.index_count = @ - 1],
                             buffer, endian)
              IN IF IsOk(rest)
                 THEN Ok(<<U16FromBytes(r.value, endian)>> \o rest.value)
                 ELSE Err

\* write_index_buffer: the indices one after the other at the position of
\* the writer, and the descriptor of what was written.
write_index_buffer(w, indices, endian) ==
    [writer |-> WWrite(w, Flatten([k \in 1..Len(indices) |->
                                      U16ToBytes(indices[k], endian)])),
     descriptor |-> [data_offset |-> w.pos, index_count |-> Len(indices),
                     primitive_type |-> "TriangleList", index_format |-> "Uint16",
                     unk3 |-> 0, unk4 |-> 0]]

InitIndex ==
    /\ index \in
         { [pc |-> "start", endian |-> en, descriptor |-> d,
            buffer |-> PatternBytes(seed,
                          Max(0, d.data_offset + 2 * d.index_count + extra - cut)),
            indices |-> None, writer |-> None, new_descriptor |-> None]
           : en \in Endians, d \in IndexDescriptors, seed \in Seeds,
             extra \in Trailers, cut \in Cuts }
    /\ stream = Idle /\ vertex = Idle /\ morph = Idle /\ layout = Idle /\ mibl = Idle /\ map = Idle

ReadIndices ==
    /\ index.pc = "start"
    /\ LET r == read_indices(index.descriptor, index.buffer, index.endian)
       IN index' = [index EXCEPT !.pc = IF IsOk(r) THEN "decoded" ELSE "error",
                                 !.indices = r]
    /\ UNCHANGED <<map, stream, vertex, morph, layout, mibl>>

\* write_index_buffer of the decoded indices, the writer standing at the
\* descriptor's data offset.
WriteIndexBuffer ==
    /\ index.pc = "decoded"
    /\ LET r == write_index_buffer(NewWriter(Zeros(index.descriptor.data_offset)),
                                   index.indices.value, index.endian)
       IN index' = [index EXCEPT !.pc = "written", !.writer = r.writer,
                                 !.new_descriptor = r.descriptor]
    /\ UNCHANGED <<map, stream, vertex, morph, layout, mibl>>

NextIndex == ReadIndices \/ WriteIndexBuffer

SpecIndex == InitIndex /\ [][NextIndex]_vars

\* The 16 bit value of the two bytes at 0-based position p of the blob.
IndexAt(buffer, p, endian) ==
    IF endian = "Little" THEN buffer[p + 1] + 256 * buffer[p + 2]
    ELSE 256 * buffer[p + 1] + buffer[p + 2]

\* C4: read_indices reads exactly index_count 16 bit indices from
\* data_offset on in the given endianness (and succeeds whenever the blob
\* holds them); write_index_buffer of the decoded indices in the same
\* endianness reproduces the 2n input bytes and a descriptor equal to the
\* original.
C4_IndexRoundTrip ==
    LET d   == index.descriptor
        end == d.data_offset + 2 * d.index_count
    IN /\ index.pc \in {"decoded", "written"} =>
            /\ d.index_count > 0 => end <= Len(index.buffer)
            /\ index.indices.value =
                 [i \in 1..d.index_count |->
                     IndexAt(index.buffer, d.data_offset + 2 * (i - 1), index.endian)]
       /\ index.pc = "error" => d.index_count > 0 /\ end > Len(index.buffer)
       /\ index.pc = "written" =>
            /\ Len(index.writer.buf) = end
            /\ \A j \in (d.data_offset + 1)..end : index.writer.buf[j] = index.buffer[j]
            /\ index.new_descriptor = d

\* Three big-endian indices at a non-zero offset, followed by other bytes,
\* have been read and written back.
C4_Witness ==
    /\ index.pc = "written"
    /\ index.endian = "Big"
    /\ index.descriptor.index_count = 3
    /\ index.descriptor.data_offset > 0
    /\ Len(index.buffer) > index.descriptor.data_offset + 6
    /\ index.indices.value[1] # index.indices.value[2]

----------------------------------------------------------------------------
(* Morph targets: decode (assign_morph_targets) and encode                 *)
(* (write_morph_targets).  A vertex index is kept as a 32 bit word.        *)

\* split_targets: the blend, default and param targets of a descriptor by
\* position in the target list, None when the range leaves the list.
split_targets(descriptor, vertex_morphs) ==
    LET start == descriptor.target_start_index
        count == Len(descriptor.param_indices) + 2
    IN IF start + count > Len(vertex_morphs.targets) THEN None
       ELSE [tag     |-> "some",
             blend   |-> vertex_morphs.targets[start + 1],
             default |-> vertex_morphs.targets[start + 2],
             params  |-> SubSeq(vertex_morphs.targets, start + 3, start + count)]

\* read_morph_blend_target
read_morph_blend_target(base_target, model_bytes) ==
    read_vertex_attributes(base_target.data_offset, base_target.vertex_count,
                           base_target.vertex_size,
                           << VertexAttribute("Position2"), VertexAttribute("Normal4"),
                              VertexAttribute("OldPosition"), VertexAttribute("Tangent2") >>,
                           model_bytes, "Little")

\* The remap of a normal or tangent byte: u as f32 / 255.0 * 2.0 - 1.0
MorphRemap(u) == F32MinusOne(F32Double(F32DivInt(u, 255)))

\* read_morph_buffer_target from vertex i on: one MorphBufferTargetVertex
\* of 32 bytes per vertex at data_offset + i * vertex_size; a short read
\* fails the target.
RECURSIVE read_morph_buffer_target(_, _, _, _)
read_morph_buffer_target(morph_target, model_bytes, i, vertices) ==
    LET Vertex(b) ==
            [position_delta |-> read_f32x3(SubSeq(b, 1, 12), "Little"),
             normal  |-> [k \in 1..4 |-> MorphRemap(b[16 + k])],
             tangent |-> [k \in 1..4 |-> MorphRemap(b[20 + k])],
             vertex_index |-> W32FromBytes(SubSeq(b, 29, 32), "Little")]
        Next(r) ==
            IF ~IsOk(r) THEN Err
            ELSE read_morph_buffer_target(morph_target, model_bytes, i + 1,
                                          Append(vertices, Vertex(r.value)))
    IN IF i >= morph_target.vertex_count THEN Ok(vertices)
       ELSE Next(ReadExact(model_bytes,
                           morph_target.data_offset + i * morph_target.vertex_size, 32))

\* read_morph_target: the sparse arrays of one param target.
read_morph_target(target, model_bytes, param_index) ==
    LET Target(r) ==
            IF ~IsOk(r) THEN Err
            ELSE Ok([morph_controller_index |-> param_index,
                     position_deltas |-> [i \in 1..Len(r.value) |-> r.value[i].position_delta],
                     normals         |-> [i \in 1..Len(r.value) |-> r.value[i].normal],
                     tangents        |-> [i \in 1..Len(r.value) |-> r.value[i].tangent],
                     vertex_indices  |-> [i \in 1..Len(r.value) |-> r.value[i].vertex_index]])
    IN Target(read_morph_buffer_target(target, model_bytes, 0, <<>>))

\* assign_morph_targets from descriptor k on: the buffers with their morph
\* targets assigned, or the first read error.  A descriptor whose buffer
\* or target range does not exist is passed over.
RECURSIVE assign_morph_targets(_, _, _, _)
assign_morph_targets(vertex_morphs, buffers, model_bytes, k) ==
    LET Assign(descriptor, split, reads) ==
            IF \E j \in 1..Len(reads) : ~IsOk(reads[j]) THEN Err
            ELSE assign_morph_targets(vertex_morphs,
                   [buffers EXCEPT ![descriptor.vertex_buffer_index + 1] =
                      [@ EXCEPT !.morph_blend_target =
                                   read_morph_blend_target(split.blend, model_bytes),
                                !.morph_targets =
                                   [j \in 1..Len(reads) |-> reads[j].value]]],
                   model_bytes, k + 1)
        Split(descriptor, split) ==
            IF descriptor.vertex_buffer_index >= Len(buffers) \/ split.tag = "none"
            THEN assign_morph_targets(vertex_morphs, buffers, model_bytes, k + 1)
            ELSE Assign(descriptor, split,
                        [j \in 1..Len(split.params) |->
                            read_morph_target(split.params[j], model_bytes,
                                              descriptor.param_indices[j])])
    IN IF k > Len(vertex_morphs.descriptors) THEN Ok(buffers)
       ELSE Split(vertex_morphs.descriptors[k],
                  split_targets(vertex_morphs.descriptors[k], vertex_morphs))

\* Ord for u32 on 32 bit words.
W32Less(a, b) == \E k \in 1..4 : a[k] < b[k] /\ \A j \in 1..(k - 1) : a[j] = b[j]

\* The iteration order of a BTreeSet<u32>.
RECURSIVE BTreeSetIter(_)
BTreeSetIter(S) ==
    IF S = {} THEN <<>>
    ELSE LET m == CHOOSE x \in S : \A y \in S \ {x} : W32Less(x, y)
         IN <<m>> \o BTreeSetIter(S \ {m})

\* A collection of the affected indices that keeps repetitions.
ModifiedIndicesAll(morph_targets) ==
    Flatten([t \in 1..Len(morph_targets) |-> morph_targets[t].vertex_indices])

\* write_morph_targets: modified_indices, the set of the vertex indices of
\* all param targets of a buffer, in ascending order.
ModifiedIndices(morph_targets) ==
    BTreeSetIter(UNION { { morph_targets[t].vertex_indices[i]
                           : i \in 1..Len(morph_targets[t].vertex_indices) }
                         : t \in 1..Len(morph_targets) })

Panic == [tag |-> "panic"]

\* write_morph_default_target: the blend target's position, normal and
\* tangent of every modified index in the 32 byte layout.  Panics when the
\* blend target lacks one of the three attributes or an index is not below
\* its length.
write_morph_default_target(w, modified_indices, buffer) ==
    LET blend    == buffer.morph_blend_target
        Has(v)   == \E a \in 1..Len(blend) : blend[a].variant = v
        Find(v)  == blend[CHOOSE a \in 1..Len(blend) :
                             /\ blend[a].variant = v
                             /\ \A c \in 1..(a - 1) : blend[c].variant # v].values
        InRange(vs) == \A i \in 1..Len(modified_indices) :
                          /\ modified_indices[i][1] = 0
                          /\ modified_indices[i][2] = 0
                          /\ W32ToNat(modified_indices[i]) < Len(vs)
        Pick(vs) == [i \in 1..Len(modified_indices) |->
                        vs[W32ToNat(modified_indices[i]) + 1]]
        zeros    == [i \in 1..Len(modified_indices) |-> W32FromNat(0)]
        offset   == w.pos
        Write(positions, normals, tangents) ==
            write_data(
              write_data(
                write_data(
                  write_data(
                    write_data(
                      write_data(w, positions, offset, 32, "Little", "f32x3"),
                      zeros, offset + 12, 32, "Little", "u32"),
                    normals, offset + 16, 32, "Little", "unorm8x4"),
                  tangents, offset + 20, 32, "Little", "unorm8x4"),
                zeros, offset + 24, 32, "Little", "u32"),
              modified_indices, offset + 28, 32, "Little", "u32")
    IN IF ~(Has("Position2") /\ Has("Normal4") /\ Has("Tangent2")) THEN Panic
       ELSE IF ~(InRange(Find("Position2")) /\ InRange(Find("Normal4"))
                 /\ InRange(Find("Tangent2"))) THEN Panic
       ELSE [tag |-> "ok",
             writer |-> Write(Pick(Find("Position2")), Pick(Find("Normal4")),
                              Pick(Find("Tangent2"))),
             target |-> [data_offset |-> offset,
                         vertex_count |-> Len(modified_indices),
                         vertex_size |-> 32, flags |-> "default"]]

\* write_morph_param_target: the arrays of a param target in the 32 byte
\* layout, normals and tangents through write_unorm8x4.
write_morph_param_target(w, morph_target) ==
    LET offset == w.pos
        zeros  == [i \in 1..Len(morph_target.position_deltas) |-> W32FromNat(0)]
    IN [writer |->
          write_data(
            write_data(
              write_data(
                write_data(
                  write_data(
                    write_data(w, morph_target.position_deltas, offset, 32, "Little",
                               "f32x3"),
                    zeros, offset + 12, 32, "Little", "u32"),
                  morph_target.normals, offset + 16, 32, "Little", "unorm8x4"),
                morph_target.tangents, offset + 20, 32, "Little", "unorm8x4"),
              zeros, offset + 24, 32, "Little", "u32"),
            morph_target.vertex_indices, offset + 28, 32, "Little", "u32"),
        target |-> [data_offset |-> offset,
                    vertex_count |-> Len(morph_target.position_deltas),
                    vertex_size |-> 32, flags |-> "param"]]

\* A writer that leaves the position where it is.
align_none(w, a) == w

\* align: zero bytes from the position of the writer up to the next
\* multiple of a.
align(w, a) == WWrite(w, Zeros(NextMultipleOf(w.pos, a) - w.pos))

\* The loop over the param targets of one buffer: align to 256, write the
\* target, push its descriptor.
RECURSIVE write_morph_params(_, _, _)
write_morph_params(st, morph_targets, k) ==
    LET Push(r) ==
            write_morph_params([st EXCEPT !.writer = r.writer,
                                          !.targets = Append(@, r.target)],
                               morph_targets, k + 1)
    IN IF k > Len(morph_targets) THEN st
       ELSE Push(write_morph_param_target(align(st.writer, 256), morph_targets[k]))

\* write_morph_targets from buffer i (1-based) on.  st holds the writer,
\* the targets and the descriptors pushed so far.
RECURSIVE write_morph_targets_from(_, _, _)
write_morph_targets_from(st, vertex_buffers, i) ==
    LET Descriptor(buffer) ==
            [vertex_buffer_index |-> i - 1,
             target_start_index  |-> Len(st.targets),
             param_indices       |-> [j \in 1..Len(buffer.morph_targets) |-> j - 1],
             unk2                |-> 3]
        Params(buffer, blend, default) ==
            IF default.tag = "panic" THEN Panic
            ELSE write_morph_targets_from(
                   write_morph_params(
                     [tag |-> "ok", writer |-> default.writer,
                      descriptors |-> Append(st.descriptors, Descriptor(buffer)),
                      targets |-> st.targets \o
                         << [data_offset  |-> blend.descriptor.data_offset,
                             vertex_count |-> blend.descriptor.vertex_count,
                             vertex_size  |-> blend.descriptor.vertex_size,
                             flags        |-> "blend"],
                            default.target >>],
                     buffer.morph_targets, 1),
                   vertex_buffers, i + 1)
        \* blend is the result of write_morph_blend_target
        Default(buffer, blend) ==
            IF blend.tag = "panic" THEN Panic
            ELSE Params(buffer, blend,
                        write_morph_default_target(
                            blend.writer, ModifiedIndices(buffer.morph_targets), buffer))
    IN IF i > Len(vertex_buffers) THEN st
       ELSE IF Len(vertex_buffers[i].morph_targets) = 0
       THEN write_morph_targets_from(st, vertex_buffers, i + 1)
       ELSE Default(vertex_buffers[i],
                    write_vertex_buffer(st.writer, vertex_buffers[i].morph_blend_target,
                                        "Little"))

\* write_morph_targets: the writer after the write and the VertexMorphs,
\* or a panic.
write_morph_targets(w, vertex_buffers) ==
    LET Result(st) ==
            IF st.tag = "panic" THEN Panic
            ELSE [tag |-> "ok", writer |-> st.writer,
                  vertex_morphs |-> [tag |-> "some", descriptors |-> st.descriptors,
                                     targets |-> st.targets]]
    IN Result(write_morph_targets_from(
                 [tag |-> "ok", writer |-> w, descriptors |-> <<>>, targets |-> <<>>],
                 vertex_buffers, 1))

----------------------------------------------------------------------------
(* Morph inputs: a blob holding a blend target, a default target and the   *)
(* param targets, and the VertexMorphs that describe it.                   *)

MaxParams == 2

BlendVertexCounts == {1, 2}

\* The vertex indices named by one param target of the file.
ParamIndexLists == { <<>>, <<0>>, <<1, 0>>, <<0, 0>> }

ParamLists == UNION { [1..n -> ParamIndexLists] : n \in 0..MaxParams }

\* How the descriptor refers to the targets: as the writer lays them out,
\* to a vertex buffer that does not exist, to a range that leaves the
\* target list, to a range shifted by one, or to targets whose first two
\* flags are exchanged.
MorphShapes == {"canonical", "no_buffer", "past_end", "shifted", "swapped"}

\* The 32 bytes of vertex i of param target j.
ParamRecord(seed, unit, idx, j, i) ==
    PatternBytes(seed + j + i, 12) \o Zeros(4)
    \o (IF unit THEN <<0, 255, 255, 0, 255, 0, 0, 255>>
        ELSE [k \in 1..8 |-> PatternByte(seed, 16 + k + j + i)])
    \o Zeros(4) \o <<idx, 0, 0, 0>>

MorphFile(bv, lists, seed, unit, shape, cut) ==
    LET params == [j \in 1..Len(lists) |->
                     Flatten([i \in 1..Len(lists[j]) |->
                                ParamRecord(seed, unit, lists[j][i], j, i)])]
        bytes  == PatternBytes(seed, 32 * bv) \o Zeros(32) \o Flatten(params)
        f1     == IF shape = "swapped" THEN "default" ELSE "blend"
        f2     == IF shape = "swapped" THEN "blend" ELSE "default"
        targets ==
            << [data_offset |-> 0, vertex_count |-> bv, vertex_size |-> 32, flags |-> f1],
               [data_offset |-> 32 * bv, vertex_count |-> 1, vertex_size |-> 32,
                flags |-> f2] >>
            \o [j \in 1..Len(lists) |->
                  [data_offset  |-> 32 * bv + 32
                                    + Len(Flatten(SubSeq(params, 1, j - 1))),
                   vertex_count |-> Len(lists[j]), vertex_size |-> 32,
                   flags        |-> "param"]]
            \o (IF shape = "shifted"
                THEN << [data_offset |-> 0, vertex_count |-> 1, vertex_size |-> 32,
                         flags |-> "param"] >>
                ELSE <<>>)
    IN [buffer |-> SubSeq(bytes, 1, Len(bytes) - cut),
        vertex_morphs |->
           [descriptors |->
               << [vertex_buffer_index |-> IF shape = "no_buffer" THEN 1 ELSE 0,
                   target_start_index  |-> IF shape \in {"past_end", "shifted"}
                                           THEN 1 ELSE 0,
                   param_indices       |-> [j \in 1..Len(lists) |-> 4 + j],
                   unk2                |-> 3] >>,
            targets |-> targets]]

\* A vertex buffer without morph data.
EmptyVertexBuffer ==
    [attributes |-> <<>>, morph_blend_target |-> <<>>, morph_targets |-> <<>>,
     outline_buffer_index |-> None]

InitMorph ==
    /\ morph \in
         { [pc |-> "start",
            file |-> MorphFile(bv, lists, seed, unit, shape, cut),
            buffers |-> <<EmptyVertexBuffer>>,
            writer |-> None, vertex_morphs |-> None, read_back |-> None]
           : bv \in BlendVertexCounts, lists \in ParamLists, seed \in Seeds,
             unit \in BOOLEAN, shape \in MorphShapes, cut \in Cuts }
    /\ stream = Idle /\ vertex = Idle /\ index = Idle /\ layout = Idle /\ mibl = Idle /\ map = Idle

\* assign_morph_targets over the descriptors of the file.
AssignMorphTargets ==
    /\ morph.pc = "start"
    /\ LET r == assign_morph_targets(morph.file.vertex_morphs, morph.buffers,
                                     morph.file.buffer, 1)
       IN morph' = IF IsOk(r)
                   THEN [morph EXCEPT !.pc = "decoded", !.buffers = r.value]
                   ELSE [morph EXCEPT !.pc = "error"]
    /\ UNCHANGED <<map, stream, vertex, index, layout, mibl>>

\* write_morph_targets of the decoded buffers into an empty writer.
WriteMorphTargets ==
    /\ morph.pc = "decoded"
    /\ LET r == write_morph_targets(NewWriter(<<>>), morph.buffers)
       IN morph' = IF r.tag = "panic"
                   THEN [morph EXCEPT !.pc = "panic"]
                   ELSE [morph EXCEPT !.pc = "written", !.writer = r.writer,
                                      !.vertex_morphs = r.vertex_morphs]
    /\ UNCHANGED <<map, stream, vertex, index, layout, mibl>>

\* assign_morph_targets of from_vertex_data over the VertexMorphs and the
\* bytes that write_morph_targets produced.
ReadMorphTargets ==
    /\ morph.pc = "written"
    /\ LET Return(r) ==
               IF IsOk(r) THEN [morph EXCEPT !.pc = "read_back", !.read_back = r.value]
               ELSE [morph EXCEPT !.pc = "read_back_error"]
       IN morph' = Return(assign_morph_targets(
                             morph.vertex_morphs,
                             [k \in 1..Len(morph.buffers) |-> EmptyVertexBuffer],
                             morph.writer.buf, 1))
    /\ UNCHANGED <<map, stream, vertex, index, layout, mibl>>

NextMorph == AssignMorphTargets \/ WriteMorphTargets \/ ReadMorphTargets

SpecMorph == InitMorph /\ [][NextMorph]_vars

\* The vertex index words stored in the 32 byte records of a target.
StoredIndices(buf, target) ==
    [i \in 1..target.vertex_count |->
        W32FromBytes(SubSeq(buf, target.data_offset + 32 * (i - 1) + 29,
                                 target.data_offset + 32 * i), "Little")]

SeqRange(q) == { q[i] : i \in 1..Len(q) }

\* C5: in every morph descriptor that write_morph_targets produces, the
\* vertex indices stored in the default target are exactly the indices
\* stored in (and named by) the param targets of that buffer, each of them
\* once, and the default target's vertex_count is the number of distinct
\* affected indices.
C5_DefaultTargetIndices ==
    morph.pc = "written" =>
        \A k \in 1..Len(morph.vertex_morphs.descriptors) :
            LET d        == morph.vertex_morphs.descriptors[k]
                tg       == morph.vertex_morphs.targets
                default  == tg[d.target_start_index + 2]
                stored   == StoredIndices(morph.writer.buf, default)
                params   == { d.target_start_index + 2 + j
                              : j \in 1..Len(d.param_indices) }
                affected == UNION { SeqRange(StoredIndices(morph.writer.buf, tg[t]))
                                    : t \in params }
                named    == UNION { SeqRange(t.vertex_indices)
                                    : t \in SeqRange(morph.buffers[d.vertex_buffer_index + 1]
                                                          .morph_targets) }
            IN /\ SeqRange(stored) = affected
               /\ affected = named
               /\ \A i, j \in 1..Len(stored) : stored[i] = stored[j] => i = j
               /\ default.vertex_count = Cardinality(affected)

\* Two param targets that share a vertex index, one of them naming it
\* twice, have been written with their default target.
C5_Witness ==
    /\ morph.pc = "written"
    /\ Len(morph.vertex_morphs.descriptors) = 1
    /\ Len(morph.buffers[1].morph_targets) = 2
    /\ morph.buffers[1].morph_targets[1].vertex_indices = <<W32FromNat(1), W32FromNat(0)>>
    /\ morph.buffers[1].morph_targets[2].vertex_indices = <<W32FromNat(0), W32FromNat(0)>>
    /\ morph.vertex_morphs.targets[2].vertex_count = 2

\* The descriptor takes its targets from inside the target list and they
\* are flagged blend, default, param, ..., param.
FlagsAsExpected(vertex_morphs, d) ==
    LET start == d.target_start_index
        count == Len(d.param_indices) + 2
    IN /\ start + count <= Len(vertex_morphs.targets)
       /\ vertex_morphs.targets[start + 1].flags = "blend"
       /\ vertex_morphs.targets[start + 2].flags = "default"
       /\ \A j \in 3..count : vertex_morphs.targets[start + j].flags = "param"

\* C6: the morph decoder takes the 2 + |param_indices| targets from
\* target_start_index on and requires the flags blend, default, param...;
\* a descriptor with other flags or with a target range that leaves the
\* target list makes the decode fail with an error, so a decode that
\* returns normally has seen only well-formed descriptors.
C6_MalformedRejected ==
    morph.pc \in {"decoded", "written", "panic"} =>
        \A k \in 1..Len(morph.file.vertex_morphs.descriptors) :
            FlagsAsExpected(morph.file.vertex_morphs,
                            morph.file.vertex_morphs.descriptors[k])

\* The bytes of a 32 byte param record that carry the position delta, the
\* normal, the tangent and the vertex index.
ParamFieldBytes == (1..12) \cup (17..24) \cup (29..32)

\* C7: a param target that was decoded and then written with the 32 byte
\* param layout holds, for every vertex, the same position delta, normal
\* bytes, tangent bytes and vertex index bytes as the target it was read
\* from.
C7_ParamRoundTrip ==
    (/\ morph.pc = "written"
     /\ morph.file.vertex_morphs.descriptors[1].vertex_buffer_index = 0
     /\ FlagsAsExpected(morph.file.vertex_morphs, morph.file.vertex_morphs.descriptors[1]))
    => \A j \in 1..Len(morph.buffers[1].morph_targets) :
          LET old == morph.file.vertex_morphs.targets[2 + j]
              new == morph.vertex_morphs.targets[2 + j]
          IN /\ new.vertex_count = old.vertex_count
             /\ \A i \in 1..old.vertex_count : \A f \in ParamFieldBytes :
                   morph.writer.buf[new.data_offset + 32 * (i - 1) + f]
                     = morph.file.buffer[old.data_offset + 32 * (i - 1) + f]

\* C30: writing model buffers with to_vertex_data and reading the result
\* back with from_vertex_data yields for every vertex buffer the same
\* number of morph targets, each with the same morph_controller_index and
\* the same vertex_indices in the same order.
C30_MorphTargetsRoundTrip ==
    morph.pc = "read_back" =>
        \A k \in 1..Len(morph.buffers) :
            /\ Len(morph.read_back[k].morph_targets) = Len(morph.buffers[k].morph_targets)
            /\ \A j \in 1..Len(morph.buffers[k].morph_targets) :
                  /\ morph.read_back[k].morph_targets[j].morph_controller_index
                       = morph.buffers[k].morph_targets[j].morph_controller_index
                  /\ morph.read_back[k].morph_targets[j].vertex_indices
                       = morph.buffers[k].morph_targets[j].vertex_indices

\* What holds of the round trip: the number of targets and their
\* vertex_indices are kept, and target j comes back with
\* morph_controller_index j.
MorphTargetsRenumbered ==
    morph.pc = "read_back" =>
        \A k \in 1..Len(morph.buffers) :
            /\ Len(morph.read_back[k].morph_targets) = Len(morph.buffers[k].morph_targets)
            /\ \A j \in 1..Len(morph.buffers[k].morph_targets) :
                  /\ morph.read_back[k].morph_targets[j].morph_controller_index = j - 1
                  /\ morph.read_back[k].morph_targets[j].vertex_indices
                       = morph.buffers[k].morph_targets[j].vertex_indices

----------------------------------------------------------------------------
(* Streaming entries of the companion file (msmd.rs, StreamEntry).         *)

\* The payload codec of a compressed chunk, as run-length pairs
\* <<count, byte>>: the decoded bytes, or an error for a truncated pair.
RECURSIVE Inflate(_)
Inflate(payload) ==
    IF Len(payload) = 0 THEN Ok(<<>>)
    ELSE IF Len(payload) = 1 THEN Err
    ELSE LET rest == Inflate(SubSeq(payload, 3, Len(payload)))
         IN IF IsOk(rest)
            THEN Ok([i \in 1..payload[1] |-> payload[2]] \o rest.value)
            ELSE Err

\* Xbc1::read followed by Xbc1::decompress at the position of the reader:
\* magic, decompressed size, compressed size, name, hash, payload.  The
\* decompressor produces exactly the declared number of bytes or fails;
\* the hash is not compared.
Xbc1ReadDecompress(wismda, offset) ==
    LET header == ReadExact(wismda, offset, 44) IN
    IF ~IsOk(header) THEN Err
    ELSE IF SubSeq(header.value, 1, 4) # <<120, 98, 99, 49>> THEN Err
    ELSE IF header.value[7] # 0 \/ header.value[8] # 0
            \/ header.value[11] # 0 \/ header.value[12] # 0 THEN Err
    ELSE LET decompressed_size == U16FromBytes(SubSeq(header.value, 5, 6), "Little")
             compressed_size   == U16FromBytes(SubSeq(header.value, 9, 10), "Little")
             payload == ReadExact(wismda, offset + 44, compressed_size)
         IN IF ~IsOk(payload) THEN Err
            ELSE LET bytes == Inflate(payload.value)
                 IN IF IsOk(bytes) /\ Len(bytes.value) = decompressed_size
                    THEN bytes ELSE Err

\* A reader that starts at the beginning of the file whatever the entry
\* says.
decompress_from_start(entry, wismda, is_compressed) ==
    IF is_compressed
    THEN LET r == Xbc1ReadDecompress(wismda, 0) IN IF IsOk(r) THEN r ELSE Panic
    ELSE LET r == ReadExact(wismda, 0, entry.decompressed_size)
         IN IF IsOk(r) THEN r ELSE Panic

\* StreamEntry::decompress: seek to the entry's offset, then either read
\* and decompress a chunk or read decompressed_size bytes; every failure
\* is unwrapped and panics.
decompress(entry, wismda, is_compressed) ==
    IF is_compressed
    THEN LET r == Xbc1ReadDecompress(wismda, entry.offset) IN IF IsOk(r) THEN r ELSE Panic
    ELSE LET r == ReadExact(wismda, entry.offset, entry.decompressed_size)
         IN IF IsOk(r) THEN r ELSE Panic

MaxStreamOffset == 2

MaxStreamSize == 3

\* A chunk that declares n decompressed bytes and whose payload decodes to
\* m bytes.
Xbc1Bytes(seed, n, m) ==
    <<120, 98, 99, 49>> \o <<n, 0, 0, 0>> \o <<2, 0, 0, 0>> \o Zeros(28)
    \o PatternBytes(seed, 4) \o <<m, PatternByte(seed, 7)>>

\* The companion file: plain bytes, or plain bytes up to the entry's
\* offset followed by a chunk.
Wismdas(entry) ==
    { PatternBytes(seed, n) : seed \in Seeds, n \in 0..(MaxStreamOffset + MaxStreamSize + 1) }
    \cup { SubSeq(PatternBytes(seed, entry.offset)
                  \o Xbc1Bytes(seed, entry.decompressed_size, m), 1,
                  entry.offset + 46 - cut)
           : seed \in Seeds, cut \in Cuts,
             m \in {entry.decompressed_size, entry.decompressed_size + 1} }

InitStream ==
    /\ stream \in
         { [pc |-> "start", entry |-> e, wismda |-> f, is_compressed |-> c,
            bytes |-> None]
           : e \in [offset : 0..MaxStreamOffset, decompressed_size : 0..MaxStreamSize],
             f \in UNION { Wismdas(e2) : e2 \in [offset : 0..MaxStreamOffset,
                                                 decompressed_size : 0..MaxStreamSize] },
             c \in BOOLEAN }
    /\ vertex = Idle /\ index = Idle /\ morph = Idle /\ layout = Idle /\ mibl = Idle /\ map = Idle

Decompress ==
    /\ stream.pc = "start"
    /\ LET r == decompress(stream.entry, stream.wismda, stream.is_compressed)
       IN stream' = [stream EXCEPT !.pc = IF r.tag = "panic" THEN "panic" ELSE "done",
                                   !.bytes = r]
    /\ UNCHANGED <<map, vertex, index, morph, layout, mibl>>

NextStream == Decompress

SpecStream == InitStream /\ [][NextStream]_vars

\* C1: with compressed=false the extraction of an entry (O, D) returns,
\* whenever the companion file holds the positions O..O+D-1, exactly the
\* D bytes at these positions in order, and it returns nothing else.
C1_PlainExtract ==
    (stream.pc # "start" /\ ~stream.is_compressed) =>
        LET O == stream.entry.offset
            D == stream.entry.decompressed_size
        IN /\ stream.pc = "done" <=> O + D <= Len(stream.wismda)
           /\ stream.pc = "done" =>
                 /\ Len(stream.bytes.value) = D
                 /\ \A i \in 1..D : stream.bytes.value[i] = stream.wismda[O + i]

\* Three bytes were extracted from the middle of a longer file.
C1_Witness ==
    /\ stream.pc = "done"
    /\ ~stream.is_compressed
    /\ stream.entry.offset = 2
    /\ stream.entry.decompressed_size = 3
    /\ Len(stream.wismda) > 5
    /\ stream.bytes.value # SubSeq(stream.wismda, 1, 3)

\* C17: with compressed=true the extraction of an entry (O, D) returns a
\* buffer of exactly D bytes, the entry's declared decompressed_size, or
\* fails.
C17_CompressedLength ==
    (stream.pc = "done" /\ stream.is_compressed) =>
        Len(stream.bytes.value) = stream.entry.decompressed_size

\* What holds of a compressed extraction: the buffer has the length the
\* chunk header declares.
CompressedLengthOfChunk ==
    (stream.pc = "done" /\ stream.is_compressed) =>
        Len(stream.bytes.value)
          = U16FromBytes(SubSeq(stream.wismda, stream.entry.offset + 5,
                                stream.entry.offset + 6), "Little")

----------------------------------------------------------------------------
(* Texture containers (mibl.rs): image data followed by a footer whose     *)
(* last four bytes are the magic.  Footer fields are 32 bit words.         *)

MIBL_FOOTER_SIZE == 40

\* b"LBIM"
MiblMagic == <<76, 66, 73, 77>>

\* The discriminants of ViewDimension and of ImageFormat.
ViewDimensions == {1, 2, 8}

ImageFormats == {1, 37, 41, 57, 66, 67, 68, 73, 75, 77, 80, 109}

MiblFooterFields ==
    << "image_size", "unk", "width", "height", "depth", "view_dimension",
       "image_format", "mipmap_count", "version" >>

\* MiblFooter::read_options: nine u32 fields and the magic; an enum value
\* outside its type or other magic bytes fail the read.
MiblFooterRead(b, endian) ==
    LET footer == [f \in SeqRange(MiblFooterFields) |->
                      LET k == CHOOSE k \in 1..9 : MiblFooterFields[k] = f
                      IN W32FromBytes(Chunk(b, k, 4), endian)]
    IN IF /\ \E v \in ViewDimensions : footer.view_dimension = W32FromNat(v)
          /\ \E v \in ImageFormats : footer.image_format = W32FromNat(v)
          /\ SubSeq(b, 37, 40) = MiblMagic
       THEN Ok(footer) ELSE Err

\* MiblFooter::write_options
MiblFooterWrite(footer, endian) ==
    Flatten([k \in 1..9 |-> W32ToBytes(footer[MiblFooterFields[k]], endian)]) \o MiblMagic

\* A reader that takes the footer from the start of the input.
mibl_read_footer_first(bytes, endian) ==
    IF Len(bytes) < MIBL_FOOTER_SIZE THEN Err
    ELSE LET footer == MiblFooterRead(SubSeq(bytes, 1, MIBL_FOOTER_SIZE), endian)
         IN IF ~IsOk(footer) THEN Err
            ELSE LET size == footer.value.image_size
                 IN IF size[1] # 0 \/ size[2] # 0 \/ W32ToNat(size) > Len(bytes) THEN Err
                    ELSE Ok([image_data |-> SubSeq(bytes, 1, W32ToNat(size)),
                             footer |-> footer.value])

\* BinRead for Mibl: seek to 40 bytes before the end, read the footer,
\* seek to the start, read image_size bytes.
mibl_read(bytes, endian) ==
    IF Len(bytes) < MIBL_FOOTER_SIZE THEN Err
    ELSE LET footer == MiblFooterRead(
                          SubSeq(bytes, Len(bytes) - MIBL_FOOTER_SIZE + 1, Len(bytes)),
                          endian)
         IN IF ~IsOk(footer) THEN Err
            ELSE LET size == footer.value.image_size
                 IN IF size[1] # 0 \/ size[2] # 0 \/ W32ToNat(size) > Len(bytes) THEN Err
                    ELSE Ok([image_data |-> SubSeq(bytes, 1, W32ToNat(size)),
                             footer |-> footer.value])

\* A writer that puts the footer behind the data it has written.
mibl_write_append(m, unaligned_size, endian, overflow_checks) ==
    [tag |-> "ok",
     writer |-> WWrite(WWrite(NewWriter(<<>>), m.image_data),
                       MiblFooterWrite(m.footer, endian))]

\* BinWrite for Mibl into an empty writer.  unaligned_size is the value of
\* tegra_swizzle's swizzled_surface_size for the footer.  The subtraction
\* is on usize: when the data is shorter than unaligned_size it panics in
\* a build with overflow checks and wraps to a huge value otherwise.
mibl_write(m, unaligned_size, endian, overflow_checks) ==
    LET aligned_size == Len(m.image_data)
        w1 == WWrite(NewWriter(<<>>), m.image_data)
    IN IF aligned_size < unaligned_size /\ overflow_checks THEN Panic
       ELSE LET w2 == IF aligned_size >= unaligned_size
                         /\ aligned_size - unaligned_size < MIBL_FOOTER_SIZE
                      THEN WWrite(w1, Zeros(4096)) ELSE w1
            IN IF Len(w2.buf) < MIBL_FOOTER_SIZE THEN Err
               ELSE [tag |-> "ok",
                     writer |-> WWrite(WSeek(w2, Len(w2.buf) - MIBL_FOOTER_SIZE),
                                       MiblFooterWrite(m.footer, endian))]

\* Lengths of the bytes that precede the footer in an input file, the
\* image sizes a footer declares and the unpadded sizes of its surface.
MiblBodyLengths == {0, 8, 48}

MiblImageSizes == {0, 8, 48, 88, 96}

MiblSurfaceSizes == {0, 8, 44, 100}

\* Footers by what is wrong with them.
MiblFooterKinds == {"d2", "cube", "bad_magic", "bad_view_dimension", "bad_image_format"}

MiblFooterOf(kind, image_size) ==
    [image_size |-> W32FromNat(image_size), unk |-> W32FromNat(4096),
     width |-> W32FromNat(4), height |-> W32FromNat(2), depth |-> W32FromNat(1),
     view_dimension |-> W32FromNat(CASE kind = "cube" -> 8
                                     [] kind = "bad_view_dimension" -> 3
                                     [] OTHER -> 1),
     image_format |-> W32FromNat(CASE kind = "cube" -> 66
                                   [] kind = "bad_image_format" -> 2
                                   [] OTHER -> 37),
     mipmap_count |-> W32FromNat(1), version |-> W32FromNat(10001)]

MiblFiles(endian) ==
    { PatternBytes(seed, n) : seed \in Seeds, n \in {0, MIBL_FOOTER_SIZE - 1} }
    \cup { PatternBytes(seed, n)
           \o (IF kind = "bad_magic"
               THEN SubSeq(MiblFooterWrite(MiblFooterOf(kind, size), endian), 1, 36)
                    \o <<77, 73, 66, 76>>
               ELSE MiblFooterWrite(MiblFooterOf(kind, size), endian))
           : seed \in Seeds, n \in MiblBodyLengths, kind \in MiblFooterKinds,
             size \in MiblImageSizes }
    \* image data without room for the footer: 4096 bytes are added and
    \* the footer takes the last 40 of them
    \cup { PatternBytes(seed, size) \o Zeros(4096 - MIBL_FOOTER_SIZE)
           \o MiblFooterWrite(MiblFooterOf("d2", size), endian)
           : seed \in Seeds, size \in MiblBodyLengths }
    \* image data that itself starts with the bytes of a footer
    \cup { MiblFooterWrite(MiblFooterOf("cube", first), endian)
           \o MiblFooterWrite(MiblFooterOf("d2", size), endian)
           : first \in MiblImageSizes, size \in MiblImageSizes }

InitMibl ==
    /\ mibl \in
         { [pc |-> "start", endian |-> en, file |-> f, unaligned_size |-> u,
            value |-> None, out |-> None]
           : en \in Endians, f \in MiblFiles("Little") \cup MiblFiles("Big"),
             u \in MiblSurfaceSizes }
    /\ stream = Idle /\ vertex = Idle /\ index = Idle /\ morph = Idle /\ layout = Idle /\ map = Idle

MiblRead ==
    /\ mibl.pc = "start"
    /\ LET r == mibl_read(mibl.file, mibl.endian)
       IN mibl' = IF IsOk(r) THEN [mibl EXCEPT !.pc = "read", !.value = r.value]
                  ELSE [mibl EXCEPT !.pc = "read_error"]
    /\ UNCHANGED <<map, stream, vertex, index, morph, layout>>

\* The texture that was read is written, by a build with or without
\* overflow checks.
MiblWrite ==
    /\ mibl.pc = "read"
    /\ \E overflow_checks \in BOOLEAN :
         LET r == mibl_write(mibl.value, mibl.unaligned_size, mibl.endian, overflow_checks)
         IN mibl' = CASE r.tag = "panic" -> [mibl EXCEPT !.pc = "panic"]
                      [] r.tag = "err"   -> [mibl EXCEPT !.pc = "write_error"]
                      [] OTHER           -> [mibl EXCEPT !.pc = "written",
                                                         !.out = r.writer.buf]
    /\ UNCHANGED <<map, stream, vertex, index, morph, layout>>

NextMibl == MiblRead \/ MiblWrite

SpecMibl == InitMibl /\ [][NextMibl]_vars

\* C9: reading a texture container takes the 40 bytes at the end of the
\* input as the footer, fails unless these end with the magic LBIM, and on
\* success returns as image data exactly the first image_size bytes of the
\* input, image_size being the size field of that footer.
C9_MiblRead ==
    LET n    == Len(mibl.file)
        last == SubSeq(mibl.file, n - 39, n)
    IN /\ (mibl.pc # "start" /\ (n < 40 \/ SubSeq(last, 37, 40) # <<76, 66, 73, 77>>))
            => mibl.pc = "read_error"
       /\ mibl.pc \in {"read", "written", "panic", "write_error"} =>
            /\ \A k \in 1..9 :
                  W32ToBytes(mibl.value.footer[MiblFooterFields[k]], mibl.endian)
                    = SubSeq(last, 4 * k - 3, 4 * k)
            /\ W32ToBytes(W32FromNat(Len(mibl.value.image_data)), mibl.endian)
                 = SubSeq(last, 1, 4)
            /\ mibl.value.image_data = SubSeq(mibl.file, 1, Len(mibl.value.image_data))

\* A file with bytes before the footer was read and the image data is a
\* proper, non-empty prefix of it.
C9_Witness ==
    /\ mibl.pc = "read"
    /\ Len(mibl.file) = 88
    /\ Len(mibl.value.image_data) = 8
    /\ mibl.endian = "Big"

\* C10: the written texture is the image data followed by the footer in
\* the last 40 bytes of the output; 4096 bytes of padding come between
\* them exactly when the data length minus the unpadded swizzled size is
\* smaller than 40, and the footer overwrites no byte of the unpadded
\* swizzled payload.
C10_MiblWrite ==
    mibl.pc = "written" =>
        LET L   == Len(mibl.value.image_data)
            U   == mibl.unaligned_size
            pad == IF L - U < 40 THEN 4096 ELSE 0
            n   == Len(mibl.out)
        IN /\ n = L + pad
           /\ SubSeq(mibl.out, n - 39, n) = MiblFooterWrite(mibl.value.footer, mibl.endian)
           /\ \A i \in 1..Min(L, U) : mibl.out[i] = mibl.value.image_data[i]

\* A texture file as the writer lays it out for a surface of unpadded
\* size U: the footer is valid and in the last 40 bytes; the image data
\* of image_size bytes holds the surface; when its padding has room for
\* the footer the file ends with the image data, otherwise 4096 bytes
\* follow it, zero up to the footer.
MiblWellFormed(file, endian, U) ==
    /\ Len(file) >= MIBL_FOOTER_SIZE
    /\ LET Formed(footer) ==
               /\ IsOk(footer)
               /\ footer.value.image_size[1] = 0 /\ footer.value.image_size[2] = 0
               /\ LET S == W32ToNat(footer.value.image_size)
                  IN /\ U <= S
                     /\ \/ S - U >= MIBL_FOOTER_SIZE /\ Len(file) = S
                        \/ /\ S - U < MIBL_FOOTER_SIZE
                           /\ Len(file) = S + 4096
                           /\ \A i \in (S + 1)..(Len(file) - MIBL_FOOTER_SIZE) : file[i] = 0
       IN Formed(MiblFooterRead(SubSeq(file, Len(file) - MIBL_FOOTER_SIZE + 1, Len(file)),
                                endian))

\* C11: reading a well-formed texture file and writing the result gives
\* a byte string identical to the file: the read succeeds, the write
\* succeeds, and the output has the same length, payload, padding and
\* footer.
C11_MiblRoundTrip ==
    MiblWellFormed(mibl.file, mibl.endian, mibl.unaligned_size) =>
        /\ mibl.pc \in {"start", "read", "written"}
        /\ mibl.pc = "written" => mibl.out = mibl.file

\* A file whose footer lies in the padding of the image data, and a file
\* with the 4096 added bytes, have been read and written back.
C11_Witness ==
    /\ mibl.pc = "written"
    /\ MiblWellFormed(mibl.file, mibl.endian, mibl.unaligned_size)
    /\ Len(mibl.file) = 48 + 4096
    /\ mibl.unaligned_size = 44
    /\ mibl.endian = "Big"

\* C22: a texture accepted by the reader or written by the writer has a
\* payload as long as the swizzled size of its footer padded to the 4096
\* byte alignment; a payload of another length, in particular a shorter
\* one, is reported as an error.
C22_PayloadLength ==
    mibl.pc \in {"read", "written"} =>
        Len(mibl.value.image_data) = NextMultipleOf(mibl.unaligned_size, 4096)

\* What the reader and the writer do hold to: the payload has the length
\* the footer's image_size declares.
PayloadLengthDeclared ==
    mibl.pc \in {"read", "written"} =>
        Len(mibl.value.image_data) = W32ToNat(mibl.value.footer.image_size)

----------------------------------------------------------------------------
(* Mibl::deswizzle_image_data_base_mip: the base mip merged with the low   *)
(* mip chain.  The deswizzled bytes of a surface are kept as one run that  *)
(* names the surface tegra_swizzle was asked for.                          *)

\* ImageFormat::block_dim
block_dim(image_format) ==
    IF W32ToNat(image_format) \in {1, 37, 41, 57, 109} THEN "uncompressed" ELSE "block_4x4"

\* ImageFormat::bytes_per_pixel
bytes_per_pixel(image_format) ==
    CASE W32ToNat(image_format) = 1 -> 1
      [] W32ToNat(image_format) \in {37, 109} -> 4
      [] W32ToNat(image_format) \in {41, 66, 73} -> 8
      [] W32ToNat(image_format) = 57 -> 2
      [] OTHER -> 16

\* x * 2 on an unsigned integer kept as bytes, most significant first,
\* without the bit shifted out.
ShiftLeft1(b) ==
    [k \in 1..Len(b) |->
        (2 * b[k] + (IF k < Len(b) /\ b[k + 1] >= 128 THEN 1 ELSE 0)) % 256]

\* u32 as usize on a 64 bit target
AsUsize(w) == Zeros(4) \o w

\* The number of layers passed to tegra_swizzle.
LayerCount(footer) == IF footer.view_dimension = W32FromNat(8) THEN 6 ELSE 1

\* tegra_swizzle::surface::deswizzle_surface: the row-major bytes of the
\* surface, or an error (enough = FALSE: the source is too short for it).
deswizzle_surface(width, height, depth, source, dim, bpp, mipmap_count, layer_count, enough) ==
    IF ~enough THEN Err
    ELSE Ok(<< [width |-> width, height |-> height, depth |-> depth, source |-> source,
                block_dim |-> dim, bytes_per_pixel |-> bpp,
                mipmap_count |-> mipmap_count, layer_count |-> layer_count] >>)

\* Mibl::deswizzled_image_data
deswizzled_image_data(m, enough) ==
    deswizzle_surface(AsUsize(m.footer.width), AsUsize(m.footer.height),
                      AsUsize(m.footer.depth), m.image_data,
                      block_dim(m.footer.image_format),
                      bytes_per_pixel(m.footer.image_format),
                      AsUsize(m.footer.mipmap_count), LayerCount(m.footer), enough)

\* Mibl::deswizzle_image_data_base_mip.  width * 2 and height * 2 are u32
\* products: past u32::MAX they panic in a build with overflow checks and
\* wrap otherwise.  Both deswizzle results are unwrapped.
deswizzle_image_data_base_mip(m, base_mip_level, base_enough, chain_enough, overflow_checks) ==
    LET Extend(image_data, chain) ==
            IF ~IsOk(chain) THEN Panic ELSE Ok(image_data.value \o chain.value)
        Base(image_data) ==
            IF ~IsOk(image_data) THEN Panic
            ELSE Extend(image_data, deswizzled_image_data(m, chain_enough))
    IN IF overflow_checks /\ (m.footer.width[1] >= 128 \/ m.footer.height[1] >= 128)
       THEN Panic
       ELSE Base(deswizzle_surface(AsUsize(ShiftLeft1(m.footer.width)),
                                   AsUsize(ShiftLeft1(m.footer.height)),
                                   AsUsize(m.footer.depth), base_mip_level,
                                   block_dim(m.footer.image_format),
                                   bytes_per_pixel(m.footer.image_format),
                                   AsUsize(W32FromNat(1)), LayerCount(m.footer),
                                   base_enough))

\* Widths and heights of a footer: small ones and the ones around 2^31.
MergeDimensions ==
    { W32FromNat(1), W32FromNat(4), <<127, 255, 255, 255>>, <<128, 0, 0, 0>>,
      <<128, 0, 0, 2>>, <<255, 255, 255, 255>> }

MergeFooters ==
    { [MiblFooterOf(kind, 8) EXCEPT !.width = w, !.height = h, !.depth = W32FromNat(d),
                                    !.mipmap_count = W32FromNat(mips)]
      : kind \in {"d2", "cube"}, w \in MergeDimensions, h \in MergeDimensions,
        d \in {1, 2}, mips \in {1, 3} }

InitMerge ==
    /\ mibl \in { [pc |-> "mid", value |-> [image_data |-> PatternBytes(seed, 8),
                                             footer |-> footer],
                   base_mip_level |-> PatternBytes(seed + 1, 4),
                   base_enough |-> be, chain_enough |-> ce, merged |-> None]
                  : seed \in Seeds, footer \in MergeFooters, be \in BOOLEAN,
                    ce \in BOOLEAN }
    /\ stream = Idle /\ vertex = Idle /\ index = Idle /\ morph = Idle /\ layout = Idle /\ map = Idle

\* deswizzle_image_data_base_mip by a build with or without overflow checks.
DeswizzleImageDataBaseMip ==
    /\ mibl.pc = "mid"
    /\ \E overflow_checks \in BOOLEAN :
         LET Return(r) ==
                 IF IsOk(r) THEN [mibl EXCEPT !.pc = "merged", !.merged = r.value]
                 ELSE [mibl EXCEPT !.pc = "panic"]
         IN mibl' = Return(deswizzle_image_data_base_mip(
                              mibl.value, mibl.base_mip_level, mibl.base_enough,
                              mibl.chain_enough, overflow_checks))
    /\ UNCHANGED <<map, stream, vertex, index, morph, layout>>

SpecMerge == InitMerge /\ [][DeswizzleImageDataBaseMip]_vars

\* The two runs the merge has to return: the base mip as a surface of
\* twice the width and twice the height of the chain with one mip level,
\* then the chain at its declared size.
ExpectedMerge(m, base_mip_level) ==
    << [width |-> ShiftLeft1(AsUsize(m.footer.width)),
        height |-> ShiftLeft1(AsUsize(m.footer.height)),
        depth |-> AsUsize(m.footer.depth), source |-> base_mip_level,
        block_dim |-> block_dim(m.footer.image_format),
        bytes_per_pixel |-> bytes_per_pixel(m.footer.image_format),
        mipmap_count |-> AsUsize(W32FromNat(1)), layer_count |-> LayerCount(m.footer)],
       [width |-> AsUsize(m.footer.width), height |-> AsUsize(m.footer.height),
        depth |-> AsUsize(m.footer.depth), source |-> m.image_data,
        block_dim |-> block_dim(m.footer.image_format),
        bytes_per_pixel |-> bytes_per_pixel(m.footer.image_format),
        mipmap_count |-> AsUsize(m.footer.mipmap_count),
        layer_count |-> LayerCount(m.footer)] >>

\* C12: the merge deswizzles the base mip at twice the chain's declared
\* width and height with mip count 1 and the chain at its declared size,
\* and returns the base mip bytes immediately followed by the chain bytes.
C12_BaseMipMerge ==
    mibl.pc = "merged" => mibl.merged = ExpectedMerge(mibl.value, mibl.base_mip_level)

\* What holds of the merge: the same, for widths and heights whose double
\* is a u32.
BaseMipMergeInRange ==
    (/\ mibl.pc = "merged"
     /\ mibl.value.footer.width[1] < 128
     /\ mibl.value.footer.height[1] < 128)
    => mibl.merged = ExpectedMerge(mibl.value, mibl.base_mip_level)

----------------------------------------------------------------------------
(* ModelBuffers::to_vertex_data: the layout of the data blob.              *)

\* The writes of a list of attribute buffers (vertex, outline or unk
\* buffers) one after the other; st holds the writer and the descriptors.
RECURSIVE write_buffers(_, _, _)
write_buffers(st, buffers, k) ==
    LET Push(r) ==
            IF r.tag = "panic" THEN Panic
            ELSE write_buffers([tag |-> "ok", writer |-> r.writer,
                                descriptors |-> Append(st.descriptors, r.descriptor)],
                               buffers, k + 1)
    IN IF k > Len(buffers) THEN st
       ELSE Push(write_vertex_buffer(st.writer, buffers[k].attributes, "Little"))

\* The loop over the index buffers: align to 4, write, push the descriptor.
RECURSIVE write_index_buffers(_, _, _)
write_index_buffers(st, index_buffers, k) ==
    LET Push(r) ==
            write_index_buffers([writer |-> r.writer,
                                 descriptors |-> Append(st.descriptors, r.descriptor)],
                                index_buffers, k + 1)
    IN IF k > Len(index_buffers) THEN st
       ELSE Push(write_index_buffer(align(st.writer, 4), index_buffers[k].indices,
                                    "Little"))

\* to_vertex_data: the VertexData with its data blob, or a panic.  The
\* steps follow the function from its end to its start: wb are the vertex
\* buffers with the weight buffer, ob the outline buffers, ib the index
\* buffers, mt the morph targets, w2 the writer before the unk buffers
\* and ub the unk buffers.
to_vertex_data(mb) ==
    LET start == [tag |-> "ok", writer |-> NewWriter(<<>>), descriptors |-> <<>>]
        Info(i, ds) ==
            LET of == { k \in 1..Len(ds) : ds[k].vertex_buffer_index = i - 1 }
            IN [has_outline_buffer |->
                   mb.vertex_buffers[i].outline_buffer_index.tag # "none",
                has_morph_targets  |-> Len(mb.vertex_buffers[i].morph_targets) # 0,
                morph_target_start_index |->
                   IF of = {} THEN 0 ELSE ds[CHOOSE k \in of : TRUE].target_start_index,
                morph_target_count |->
                   IF of = {} THEN 0
                   ELSE Len(ds[CHOOSE k \in of : TRUE].param_indices)]
        Finish(wb, ob, ib, mt, w2, ub) ==
            IF ub.tag = "panic" THEN Panic
            ELSE [tag |-> "ok",
                  vertex_buffers  |-> wb.descriptors,
                  outline_buffers |-> ob.descriptors,
                  index_buffers   |-> ib.descriptors,
                  vertex_buffer_info |->
                     [i \in 1..Len(mb.vertex_buffers) |->
                        Info(i, IF mt.vertex_morphs.tag = "none" THEN <<>>
                                ELSE mt.vertex_morphs.descriptors)],
                  vertex_morphs   |-> mt.vertex_morphs,
                  weights |-> IF mb.weights.tag = "none" THEN None
                              ELSE [tag |-> "some",
                                    vertex_buffer_index |-> Len(wb.descriptors) - 1],
                  unk7 |-> IF Len(mb.unk_buffers) # 0
                           THEN [tag |-> "some", data_offset |-> w2.pos,
                                 data_length |-> ub.writer.pos - w2.pos,
                                 buffers |-> [k \in 1..Len(ub.descriptors) |->
                                    [count  |-> ub.descriptors[k].vertex_count,
                                     offset |-> ub.descriptors[k].data_offset - w2.pos,
                                     vertex_size |-> ub.descriptors[k].vertex_size]]]
                           ELSE None,
                  buffer |-> align(ub.writer, 4096).buf]
        \* write_unk_buffers
        Unk(wb, ob, ib, mt, w2) ==
            Finish(wb, ob, ib, mt, w2,
                   IF Len(mb.unk_buffers) # 0
                   THEN write_buffers([start EXCEPT !.writer = w2], mb.unk_buffers, 1)
                   ELSE [start EXCEPT !.writer = w2])
        Morphed(wb, ob, ib, mt) ==
            IF mt.tag = "panic" THEN Panic
            ELSE Unk(wb, ob, ib, mt, align(mt.writer, 256))
        Morph(wb, ob, ib, w1) ==
            Morphed(wb, ob, ib,
                    IF \E i \in 1..Len(mb.vertex_buffers) :
                          Len(mb.vertex_buffers[i].morph_targets) # 0
                    THEN write_morph_targets(w1, mb.vertex_buffers)
                    ELSE [tag |-> "ok", writer |-> w1, vertex_morphs |-> None])
        Index(wb, ob, ib) == Morph(wb, ob, ib, align(ib.writer, 256))
        Outline(wb, ob) ==
            IF ob.tag = "panic" THEN Panic
            ELSE Index(wb, ob,
                       write_index_buffers([writer |-> ob.writer, descriptors |-> <<>>],
                                           mb.index_buffers, 1))
        Weights(wb) ==
            IF wb.tag = "panic" THEN Panic
            ELSE Outline(wb, write_buffers([wb EXCEPT !.descriptors = <<>>],
                                           mb.outline_buffers, 1))
        Vertex(vb) ==
            IF vb.tag = "panic" THEN Panic
            ELSE Weights(
                   IF mb.weights.tag = "none" THEN vb
                   ELSE IF Len(mb.weights.weight_buffers) = 0 THEN Panic
                   ELSE write_buffers(vb,
                          << [attributes |->
                                << [variant |-> "SkinWeights",
                                    values |-> mb.weights.weight_buffers[1].weights],
                                   [variant |-> "BoneIndices",
                                    values |-> mb.weights.weight_buffers[1].bone_indices] >>] >>,
                          1))
    IN Vertex(write_buffers(start, mb.vertex_buffers, 1))

\* Inputs of to_vertex_data: buffers as from_vertex_data decodes them,
\* every attribute of a buffer with one value per vertex.
DecodedAttributes(seed, n, types) ==
    LET attrs == [k \in 1..Len(types) |-> VertexAttribute(types[k])]
    IN read_vertex_attributes(0, n, SumSizes(attrs), attrs,
                              PatternBytes(seed, n * SumSizes(attrs)), "Little")

LayoutVertexBuffers(seed) ==
    { [EmptyVertexBuffer EXCEPT !.attributes = DecodedAttributes(seed, n, types)]
      : n \in 0..2, types \in { <<"Position", "Normal">>, <<"WeightIndex">>, <<"Unk15">> } }
    \cup
    { [attributes |-> DecodedAttributes(seed, 2, <<"Position", "VertexColor">>),
       morph_blend_target |->
          DecodedAttributes(seed + 1, 2,
                            <<"Position2", "Normal4", "OldPosition", "Tangent2">>),
       morph_targets |->
          [j \in 1..Len(lists) |->
             read_morph_target([data_offset |-> 0, vertex_count |-> Len(lists[j]),
                                vertex_size |-> 32],
                               Flatten([i \in 1..Len(lists[j]) |->
                                  ParamRecord(seed, FALSE, lists[j][i], j, i)]),
                               j - 1).value],
       outline_buffer_index |-> [tag |-> "some", value |-> 0]]
      : lists \in { <<<<0>>>>, << <<1, 0>>, <<0, 0>> >> } }

LayoutIndexBuffers ==
    { [k \in 1..Len(counts) |-> [indices |-> [i \in 1..counts[k] |-> 258 * i + k]]]
      : counts \in { <<>>, <<1>>, <<3, 2>> } }

LayoutModelBuffers(seed) ==
    { [vertex_buffers |-> vbs,
       weights |-> IF weighted
                   THEN [tag |-> "some",
                         weight_buffers |->
                            << [weights |-> DecodedAttributes(seed, 1, <<"SkinWeights">>)[1].values,
                                bone_indices |->
                                   DecodedAttributes(seed, 1, <<"BoneIndices">>)[1].values] >>]
                   ELSE None,
       outline_buffers |-> [k \in 1..outlines |->
                              [attributes |-> DecodedAttributes(seed + k, 3, <<"VertexColor">>)]],
       index_buffers |-> ibs,
       unk_buffers |-> [k \in 1..unks |->
                          [attributes |-> DecodedAttributes(seed + k, 1,
                                                            <<"Position", "TexCoord0">>)]]]
      : weighted \in BOOLEAN, outlines \in 0..1, unks \in 0..1,
        ibs \in LayoutIndexBuffers,
        vbs \in UNION { [1..n -> LayoutVertexBuffers(seed)] : n \in 0..2 } }

InitLayout ==
    /\ layout \in { [pc |-> "start", buffers |-> mb, result |-> None]
                    : mb \in UNION { LayoutModelBuffers(seed) : seed \in Seeds } }
    /\ stream = Idle /\ vertex = Idle /\ index = Idle /\ morph = Idle /\ mibl = Idle /\ map = Idle

ToVertexData ==
    /\ layout.pc = "start"
    /\ LET Return(r) ==
               [layout EXCEPT !.pc = IF r.tag = "panic" THEN "panic" ELSE "done",
                              !.result = r]
       IN layout' = Return(to_vertex_data(layout.buffers))
    /\ UNCHANGED <<map, stream, vertex, index, morph, mibl>>

NextLayout == ToVertexData

SpecLayout == InitLayout /\ [][NextLayout]_vars

\* The first byte after the data that a buffer or target descriptor names.
DataEnd(d) == d.data_offset + d.vertex_count * d.vertex_size

IndexDataEnd(d) == d.data_offset + 2 * d.index_count

\* The byte ranges of the sections of a written VertexData, each as the
\* set of pairs <<first byte offset, end>> of its descriptors.
VertexExtents(r) ==
    { <<r.vertex_buffers[k].data_offset, DataEnd(r.vertex_buffers[k])>>
      : k \in 1..Len(r.vertex_buffers) }

OutlineExtents(r) ==
    { <<r.outline_buffers[k].data_offset, DataEnd(r.outline_buffers[k])>>
      : k \in 1..Len(r.outline_buffers) }

IndexExtents(r) ==
    { <<r.index_buffers[k].data_offset, IndexDataEnd(r.index_buffers[k])>>
      : k \in 1..Len(r.index_buffers) }

MorphExtents(r) ==
    IF r.vertex_morphs.tag = "none" THEN {}
    ELSE { <<r.vertex_morphs.targets[k].data_offset, DataEnd(r.vertex_morphs.targets[k])>>
           : k \in 1..Len(r.vertex_morphs.targets) }

UnkExtents(r) ==
    IF r.unk7.tag = "none" THEN {}
    ELSE { <<r.unk7.data_offset + r.unk7.buffers[k].offset,
             r.unk7.data_offset + r.unk7.buffers[k].offset
             + r.unk7.buffers[k].count * r.unk7.buffers[k].vertex_size>>
           : k \in 1..Len(r.unk7.buffers) }

\* Every range of A ends where or before every range of B starts.
Before(A, B) == \A a \in A, b \in B : a[2] <= b[1]

C29_NeverPanics == layout.pc # "panic"

\* What holds of to_vertex_data: it panics on these buffers only when a
\* vertex buffer decoded to an empty attribute list.
PanicsOnEmptyAttributes ==
    layout.pc = "panic" <=>
        /\ layout.result # None
        /\ \E k \in 1..Len(layout.buffers.vertex_buffers) :
              Len(layout.buffers.vertex_buffers[k].attributes) = 0

\* The descriptors of a written VertexData that name bytes of the blob:
\* <<kind, position, data_offset, end>>.
DataRanges(r) ==
    { <<"vertex", k, r.vertex_buffers[k].data_offset, DataEnd(r.vertex_buffers[k])>>
      : k \in 1..Len(r.vertex_buffers) }
    \cup
    { <<"outline", k, r.outline_buffers[k].data_offset, DataEnd(r.outline_buffers[k])>>
      : k \in 1..Len(r.outline_buffers) }
    \cup
    { <<"index", k, r.index_buffers[k].data_offset, IndexDataEnd(r.index_buffers[k])>>
      : k \in 1..Len(r.index_buffers) }
    \cup
    (IF r.vertex_morphs.tag = "none" THEN {}
     ELSE { <<"morph", k, r.vertex_morphs.targets[k].data_offset,
              DataEnd(r.vertex_morphs.targets[k])>>
            : k \in 1..Len(r.vertex_morphs.targets) })

\* Two byte ranges have a byte in common.
Overlap(a, b) == Max(a[3], b[3]) < Min(a[4], b[4])

\* Vertex buffers as an application fills the public fields of
\* VertexBuffer: the attribute arrays of a buffer need not have the same
\* length.
WrittenVertexBuffers(seed) ==
    { [EmptyVertexBuffer EXCEPT
          !.attributes = << DecodedAttributes(seed, n1, <<"Position">>)[1],
                            DecodedAttributes(seed, n2, <<"Normal">>)[1] >>]
      : n1, n2 \in 0..2 }

InitWrite ==
    /\ layout \in { [pc |-> "start",
                     buffers |-> [vertex_buffers |-> vbs, weights |-> None,
                                  outline_buffers |-> <<>>, index_buffers |-> ibs,
                                  unk_buffers |-> <<>>],
                     result |-> None]
                    : vbs \in UNION { [1..n -> UNION { WrittenVertexBuffers(seed)
                                                       : seed \in Seeds }]
                                      : n \in 0..2 },
                      ibs \in LayoutIndexBuffers }
    /\ stream = Idle /\ vertex = Idle /\ index = Idle /\ morph = Idle
    /\ mibl = Idle /\ map = Idle

SpecWrite == InitWrite /\ [][ToVertexData]_vars

\* C28: in the VertexData written by to_vertex_data the byte range of
\* every vertex buffer, outline buffer, index buffer and morph target
\* descriptor lies inside the data blob, and no two descriptors' ranges
\* overlap.
C28_RangesDisjoint ==
    layout.pc = "done" =>
        /\ \A a \in DataRanges(layout.result) :
              a[3] <= a[4] /\ a[4] <= Len(layout.result.buffer)
        /\ \A a, b \in DataRanges(layout.result) : a # b => ~Overlap(a, b)

\* What holds of to_vertex_data: the same for vertex buffers whose
\* attributes have one value per vertex each.
RangesDisjointDecoded ==
    (/\ layout.pc = "done"
     /\ \A k \in 1..Len(layout.buffers.vertex_buffers) :
           \A a, b \in 1..Len(layout.buffers.vertex_buffers[k].attributes) :
              Len(layout.buffers.vertex_buffers[k].attributes[a].values)
                = Len(layout.buffers.vertex_buffers[k].attributes[b].values)) =>
        /\ \A a \in DataRanges(layout.result) :
              a[3] <= a[4] /\ a[4] <= Len(layout.result.buffer)
        /\ \A a, b \in DataRanges(layout.result) : a # b => ~Overlap(a, b)

----------------------------------------------------------------------------
(* TextureCache: the image texture index of each texture of a map.  The    *)
(* IndexMap is the sequence of its entries in insertion order.             *)

MaxInserts == 4

\* (low_texture_index, low_textures_entry_index, texture_index) of a
\* xc3_lib::map::Texture
TextureKeys == { <<0, 0, 0>>, <<0, 0, 1>>, <<1, 0, -1>>, <<-1, -1, 2>> }

\* IndexMap::get
IndexMapGet(entries, key) ==
    IF \E k \in 1..Len(entries) : entries[k].key = key
    THEN Ok((CHOOSE k \in 1..Len(entries) : entries[k].key = key))
    ELSE None

\* An insert that stores the new index over the one the key has.
cache_insert_overwrite(texture_to_image_texture_index, key) ==
    LET new_index == Len(texture_to_image_texture_index)
        found == IndexMapGet(texture_to_image_texture_index, key)
    IN IF IsOk(found)
       THEN [entries |-> [texture_to_image_texture_index
                             EXCEPT ![found.value].value = new_index],
             index |-> new_index]
       ELSE [entries |-> Append(texture_to_image_texture_index,
                                [key |-> key, value |-> new_index]),
             index |-> new_index]

\* TextureCache::insert: entry(key).or_insert(len())
cache_insert(texture_to_image_texture_index, key) ==
    LET new_index == Len(texture_to_image_texture_index)
        found == IndexMapGet(texture_to_image_texture_index, key)
    IN IF IsOk(found)
       THEN [entries |-> texture_to_image_texture_index,
             index |-> texture_to_image_texture_index[found.value].value]
       ELSE [entries |-> Append(texture_to_image_texture_index,
                                [key |-> key, value |-> new_index]),
             index |-> new_index]

\* get_low_texture: None for a negative or missing index.
get_low_texture(low_textures, entry_index, index_) ==
    IF entry_index < 0 \/ index_ < 0 THEN None
    ELSE IF entry_index >= Len(low_textures) THEN None
    ELSE IF index_ >= Len(low_textures[entry_index + 1]) THEN None
    ELSE Ok(low_textures[entry_index + 1][index_ + 1])

\* get_high_texture
get_high_texture(high_textures, index_) ==
    IF index_ < 0 \/ index_ >= Len(high_textures) THEN None
    ELSE Ok(high_textures[index_ + 1])

\* ImageTexture::from_mibl(mibl, None, usage): an error for a Mibl that
\* does not deswizzle.
from_mibl(m, usage) ==
    IF m.valid THEN Ok([mibl |-> m.name, usage |-> usage])
    ELSE Err

\* The closure of image_textures: the texture of one key, from the high
\* texture, else the low texture, else the low texture (0, 0).
image_texture(cache, key) ==
    LET Fallback(first) ==
            IF first = None THEN Panic
            ELSE from_mibl(first.value.mibl, Ok(first.value.usage))
        Build(low, high) ==
            IF high # None
            THEN from_mibl(high.value, IF low = None THEN None ELSE Ok(low.value.usage))
            ELSE IF low # None THEN from_mibl(low.value.mibl, Ok(low.value.usage))
            ELSE Fallback(get_low_texture(cache.low_textures, 0, 0))
    IN Build(get_low_texture(cache.low_textures, key[2], key[1]),
             get_high_texture(cache.high_textures, key[3]))

\* An image_textures that collects the textures in the reverse order of
\* the entries.
image_textures_reversed(cache) ==
    LET entries == cache.texture_to_image_texture_index
        n == Len(entries)
        built == [k \in 1..n |-> image_texture(cache, entries[n + 1 - k].key)]
    IN IF \E k \in 1..n : built[k].tag = "panic" THEN Panic
       ELSE IF \E k \in 1..n : built[k].tag = "err" THEN Err
       ELSE Ok([k \in 1..n |-> built[k].value])

\* TextureCache::image_textures: par_iter over the entries of the
\* IndexMap, collected in the order of the entries.
image_textures(cache) ==
    LET entries == cache.texture_to_image_texture_index
        n == Len(entries)
        built == [k \in 1..n |-> image_texture(cache, entries[k].key)]
    IN IF \E k \in 1..n : built[k].tag = "panic" THEN Panic
       ELSE IF \E k \in 1..n : built[k].tag = "err" THEN Err
       ELSE Ok([k \in 1..n |-> built[k].value])

\* The low and high textures of a map.
CachedTextures ==
    LET Low(name, valid) ==
            [usage |-> name, mibl |-> [name |-> name, valid |-> valid]]
        High(name, valid) == [name |-> name, valid |-> valid]
    IN { [low |-> low, high |-> high]
         : low \in { << >>, << <<Low("l00", TRUE)>> >>,
                     << <<Low("l00", TRUE), Low("l01", TRUE)>> >>,
                     << <<Low("l00", TRUE), Low("l01", FALSE)>> >> },
           high \in { << >>, <<High("h0", TRUE)>>,
                      <<High("h0", TRUE), High("h1", FALSE)>>,
                      <<High("h0", TRUE), High("h1", TRUE), High("h2", TRUE)>> } }

\* TextureCache::new leaves the index empty.
InitCache ==
    /\ map \in { [pc |-> "cache", texture_to_image_texture_index |-> << >>,
                  inserts |-> << >>, low_textures |-> t.low,
                  high_textures |-> t.high, image_textures |-> None]
                 : t \in CachedTextures }
    /\ stream = Idle /\ vertex = Idle /\ index = Idle /\ morph = Idle
    /\ layout = Idle /\ mibl = Idle

\* TextureCache::insert of a texture of a map or prop model; inserts
\* records the key, the index returned and the entries before the call.
Insert ==
    /\ map.pc = "cache"
    /\ Len(map.inserts) < MaxInserts
    /\ \E key \in TextureKeys :
         LET Return(r) ==
                 [map EXCEPT !.texture_to_image_texture_index = r.entries,
                             !.inserts = Append(@, [key |-> key, index |-> r.index,
                                                    before |-> map.texture_to_image_texture_index])]
         IN map' = Return(cache_insert(map.texture_to_image_texture_index, key))
    /\ UNCHANGED <<stream, vertex, index, morph, layout, mibl>>

\* TextureCache::image_textures, after the models of the map are loaded.
ImageTextures ==
    /\ map.pc = "cache"
    /\ LET Return(r) ==
               IF r.tag = "panic" THEN [map EXCEPT !.pc = "panic"]
               ELSE IF r.tag = "err" THEN [map EXCEPT !.pc = "error"]
               ELSE [map EXCEPT !.pc = "textures", !.image_textures = r]
       IN map' = Return(image_textures(map))
    /\ UNCHANGED <<stream, vertex, index, morph, layout, mibl>>

SpecCache == InitCache /\ [][Insert \/ ImageTextures]_vars

\* C26: the list returned by image_textures has one texture per distinct
\* cached key, and the texture at the index that insert returned for a key
\* is the texture built for that key.
C26_TextureOfKey ==
    map.pc = "textures" =>
        /\ Len(map.image_textures.value)
             = Cardinality({ map.inserts[j].key : j \in 1..Len(map.inserts) })
        /\ \A j \in 1..Len(map.inserts) :
             /\ map.inserts[j].index < Len(map.image_textures.value)
             /\ Ok(map.image_textures.value[map.inserts[j].index + 1])
                  = image_texture(map, map.inserts[j].key)

C26_Witness ==
    /\ map.pc = "textures"
    /\ Len(map.inserts) = 4
    /\ Len(map.image_textures.value) = 3
    /\ map.inserts[1].key = map.inserts[3].key
    /\ map.image_textures.value[1] # map.image_textures.value[2]
    /\ map.image_textures.value[2] # map.image_textures.value[3]
    /\ map.image_textures.value[1] # map.image_textures.value[3]
    /\ \E j \in 1..4 : map.inserts[j].key = <<-1, -1, 2>>


\* The keys of the first j inserts.
KeysBefore(j) == { map.inserts[k].key : k \in 1..(j - 1) }

\* The entries after the first j inserts.
EntriesAfter(j) ==
    IF j < Len(map.inserts) THEN map.inserts[j + 1].before
    ELSE map.texture_to_image_texture_index

\* C13: the first insert of a key returns the number of distinct keys
\* inserted before it; a later insert of the key returns the index of the
\* first one and changes nothing; the entries hold the indices 0..n-1 in
\* the order of first insertion.
C13_WriteOnce ==
    map.pc = "cache" =>
        /\ \A j \in 1..Len(map.inserts) :
             IF map.inserts[j].key \in KeysBefore(j)
             THEN /\ EntriesAfter(j) = map.inserts[j].before
                  /\ \E k \in 1..(j - 1) :
                       /\ map.inserts[k].key = map.inserts[j].key
                       /\ map.inserts[k].key \notin KeysBefore(k)
                       /\ map.inserts[k].index = map.inserts[j].index
             ELSE map.inserts[j].index = Cardinality(KeysBefore(j))
        /\ Len(map.texture_to_image_texture_index)
             = Cardinality(KeysBefore(Len(map.inserts) + 1))
        /\ \A k \in 1..Len(map.texture_to_image_texture_index) :
             /\ map.texture_to_image_texture_index[k].value = k - 1
             /\ \E j \in 1..Len(map.inserts) :
                  /\ map.inserts[j].key = map.texture_to_image_texture_index[k].key
                  /\ map.inserts[j].key \notin KeysBefore(j)
                  /\ Cardinality(KeysBefore(j)) = k - 1

\* A key has been inserted, then another, then the first one again.
C13_Witness ==
    /\ map.pc = "cache"
    /\ Len(map.inserts) = 3
    /\ map.inserts[1].key = map.inserts[3].key
    /\ map.inserts[1].key # map.inserts[2].key
    /\ map.inserts[3].index = 0
    /\ Len(map.texture_to_image_texture_index) = 2

----------------------------------------------------------------------------
(* load_map: the streaming entries of a map extracted in parallel          *)
(* (TextureCache::new, create_buffers, props_group).  Each entry is a task *)
(* of the thread pool; a task reads the companion bytes through a cursor   *)
(* of its own.                                                             *)

NumEntries == 2

\* The companion file of the map: two chunks one after the other.
MapWismda == Xbc1Bytes(1, 2, 2) \o Xbc1Bytes(2, 3, 3)

\* The entries of the map header with what their payload is: parses says
\* whether T::read_le accepts it, converts whether the conversion of the
\* parsed value (Mibl::from_bytes, ModelBuffers::from_vertex_data) does.
StreamItems ==
    { [entry |-> [offset |-> 0, decompressed_size |-> 2], parses |-> TRUE, converts |-> TRUE],
      [entry |-> [offset |-> 46, decompressed_size |-> 3], parses |-> TRUE, converts |-> TRUE],
      [entry |-> [offset |-> 46, decompressed_size |-> 3], parses |-> TRUE, converts |-> FALSE],
      [entry |-> [offset |-> 0, decompressed_size |-> 2], parses |-> FALSE, converts |-> TRUE],
      [entry |-> [offset |-> 40, decompressed_size |-> 2], parses |-> TRUE, converts |-> FALSE],
      [entry |-> [offset |-> 100, decompressed_size |-> 1], parses |-> TRUE, converts |-> TRUE] }

\* StreamEntry::extract: decompress, then T::read_le(...).unwrap().
extract(entry, wismda, is_compressed, parses) ==
    LET Read(bytes) ==
            IF bytes.tag = "panic" THEN Panic
            ELSE IF ~parses THEN Panic
            ELSE Ok([data |-> bytes.value])
    IN Read(decompress(entry, wismda, is_compressed))

\* The closure a parallel iterator maps over the entries: extract the
\* entry, then convert what was read; the conversion returns its error.
extract_item(item, wismda, compressed) ==
    LET Convert(textures) ==
            IF textures.tag = "panic" THEN Panic
            ELSE IF ~item.converts THEN Err
            ELSE Ok([entry |-> item.entry, value |-> textures.value])
    IN Convert(extract(item.entry, wismda, compressed, item.parses))

\* A collection that takes the results in the order the tasks finished.
collect_finished(results, finished) ==
    [k \in 1..Len(finished) |-> results[finished[k]]]

\* collect::<Result<Vec<_>, _>>() of an indexed parallel iterator: the
\* results in the order of the entries.
collect(results, finished) ==
    [i \in 1..Len(results) |-> results[i]]

InitLoad ==
    /\ map \in { [pc |-> "extract", wismda |-> MapWismda, compressed |-> c,
                  items |-> items, referenced |-> refs,
                  task |-> [i \in 1..NumEntries |-> "pending"],
                  results |-> [i \in 1..NumEntries |-> None],
                  finished |-> << >>, saved_error |-> None, full |-> FALSE,
                  out |-> None]
                 : c \in BOOLEAN, items \in [1..NumEntries -> StreamItems],
                   refs \in SUBSET (1..NumEntries) }
    /\ stream = Idle /\ vertex = Idle /\ index = Idle /\ morph = Idle
    /\ layout = Idle /\ mibl = Idle

\* A worker thread takes the entry and makes a cursor over the companion
\* bytes.  The flag that stops the iteration is read without ordering, so
\* a task can still start after a peer has failed.
StartExtract ==
    /\ map.pc = "extract"
    /\ \E i \in 1..NumEntries :
         /\ map.task[i] = "pending"
         /\ map' = [map EXCEPT !.task[i] = "running"]
    /\ UNCHANGED <<stream, vertex, index, morph, layout, mibl>>

\* An entry that is not extracted: the iteration has been stopped by an
\* error, or the thread that held the entry is unwinding.
SkipExtract ==
    /\ map.pc = "extract"
    /\ map.full \/ \E j \in 1..NumEntries : map.task[j] = "panic"
    /\ \E i \in 1..NumEntries :
         /\ map.task[i] = "pending"
         /\ map' = [map EXCEPT !.task[i] = "skipped"]
    /\ UNCHANGED <<stream, vertex, index, morph, layout, mibl>>

\* The closure returns or panics.  The first error is saved and stops
\* the iteration; an error found when one is saved is dropped.
FinishExtract ==
    /\ map.pc = "extract"
    /\ \E i \in 1..NumEntries :
         /\ map.task[i] = "running"
         /\ LET Return(r) ==
                    IF r.tag = "panic"
                    THEN [map EXCEPT !.task[i] = "panic", !.finished = Append(@, i)]
                    ELSE IF r.tag = "err"
                    THEN [map EXCEPT !.task[i] = "err", !.finished = Append(@, i),
                                     !.full = TRUE,
                                     !.saved_error = IF @ = None THEN Ok(i) ELSE @]
                    ELSE [map EXCEPT !.task[i] = "ok", !.finished = Append(@, i),
                                     !.results[i] = r]
            IN map' = Return(extract_item(map.items[i], map.wismda, map.compressed))
    /\ UNCHANGED <<stream, vertex, index, morph, layout, mibl>>

\* All tasks are over: a panic of a task is resumed in the caller,
\* otherwise the saved error or the list of results is returned and `?`
\* hands the error to the caller of load_map.
CollectResults ==
    /\ map.pc = "extract"
    /\ \A i \in 1..NumEntries : map.task[i] \in {"ok", "err", "panic", "skipped"}
    /\ map' = IF \E i \in 1..NumEntries : map.task[i] = "panic"
              THEN [map EXCEPT !.pc = "panic", !.out = Panic]
              ELSE IF map.saved_error # None
              THEN [map EXCEPT !.pc = "error", !.out = [tag |-> "err", of |-> map.saved_error.value]]
              ELSE [map EXCEPT !.pc = "loaded",
                               !.out = Ok(collect(map.results, map.finished))]
    /\ UNCHANGED <<stream, vertex, index, morph, layout, mibl>>

SpecLoad == InitLoad /\ [][StartExtract \/ SkipExtract \/ FinishExtract \/ CollectResults]_vars

\* The bytes the entry of an item names in the companion file: the D bytes
\* from its offset on, or the run the chunk at its offset encodes.
ExpectedData(item, wismda, compressed) ==
    IF compressed
    THEN [k \in 1..wismda[item.entry.offset + 45] |-> wismda[item.entry.offset + 46]]
    ELSE SubSeq(wismda, item.entry.offset + 1,
                item.entry.offset + item.entry.decompressed_size)

\* The extraction of the item fails: its bytes are not in the file, the
\* chunk is malformed, or the payload does not parse or convert.
ExtractionFails(item, wismda, compressed) ==
    \/ ~compressed /\ item.entry.offset + item.entry.decompressed_size > Len(wismda)
    \/ compressed /\ ~IsOk(Xbc1ReadDecompress(wismda, item.entry.offset))
    \/ ~item.parses
    \/ ~item.converts

\* C14: whatever the order and interleaving of the parallel extractions,
\* the result of an entry is the one its own bytes give, the companion
\* bytes are never written, and the list returned holds at position i the
\* result of entry i.
C14_OrderIrrelevant ==
    map.pc # "idle" =>
        /\ map.wismda = MapWismda
        /\ \A i \in 1..NumEntries :
             map.task[i] = "ok" =>
                 /\ map.results[i].value.entry = map.items[i].entry
                 /\ map.results[i].value.value.data
                      = ExpectedData(map.items[i], MapWismda, map.compressed)
        /\ map.pc = "loaded" =>
             /\ Len(map.out.value) = NumEntries
             /\ \A i \in 1..NumEntries :
                  /\ map.out.value[i].value.entry = map.items[i].entry
                  /\ map.out.value[i].value.value.data
                       = ExpectedData(map.items[i], MapWismda, map.compressed)

\* Two different entries were extracted, the second finished first, and
\* the list has been returned.
C14_Witness ==
    /\ map.pc = "loaded"
    /\ map.finished[1] = 2
    /\ map.items[1].entry # map.items[2].entry
    /\ map.out.value[1].value.value.data # map.out.value[2].value.value.data

\* The entries whose extraction returned an error or panicked.
Failed == { i \in 1..NumEntries : map.task[i] \in {"err", "panic"} }

\* The entry that failed first.
FirstFailed ==
    map.finished[CHOOSE k \in 1..Len(map.finished) :
                    /\ map.finished[k] \in Failed
                    /\ \A j \in 1..(k - 1) : map.finished[j] \notin Failed]

\* C15: when at least one of the parallel extractions fails, the error of
\* the one that failed first is the error returned, the errors of the
\* peers are discarded and no list of results is returned.
C15_FirstErrorReturned ==
    (map.pc \in {"loaded", "error", "panic"} /\ Failed # {}) =>
        /\ map.pc = "error"
        /\ map.out = [tag |-> "err", of |-> FirstFailed]

\* What holds of the collection: without a panic, the error returned is
\* the one of the entry that failed first, and a list is returned only
\* when no extraction failed.
FirstSavedErrorReturned ==
    /\ (map.pc \in {"loaded", "error"} /\ Failed # {}) =>
           /\ map.pc = "error"
           /\ map.out = [tag |-> "err", of |-> FirstFailed]
    /\ map.pc = "error" => Failed # {}

\* C16: every failure of an extraction (offset beyond the companion file,
\* fewer than decompressed_size bytes, malformed chunk, payload that does
\* not parse) reaches the caller of load_map as an error value: no
\* extraction aborts, and no partial list is returned.
C16_ErrorsSurface ==
    map.pc \in {"loaded", "error", "panic"} =>
        /\ map.pc # "panic"
        /\ (\E i \in 1..NumEntries :
               /\ map.task[i] # "skipped"
               /\ ExtractionFails(map.items[i], map.wismda, map.compressed))
           => map.pc = "error"

\* C18: extraction is lazy: an entry that no map or prop model references
\* is never extracted during map loading.
C18_LazyExtraction ==
    map.pc # "idle" =>
        \A i \in 1..NumEntries :
            map.task[i] \in {"running", "ok", "err", "panic"} => i \in map.referenced

----------------------------------------------------------------------------
(* Item codecs: one item of an attribute decoded by its reader and written *)
(* back by its writer.                                                     *)

Codecs == {"f32x3", "f32x2", "u16x2", "u8x4", "unorm8x4", "snorm8x4", "unorm16x4"}

\* 16 bit values over the whole range, with every residue modulo 16.
U16Samples == { 16 * k + (k % 16) : k \in 0..4095 } \cup {1, 32767, 32768, 65534, 65535}

\* The items of a codec: every byte value, or each of the 16 bit values,
\* occurs in the first lane, its complement in the second.
CodecItems(codec) ==
    CASE codec \in {"u8x4", "unorm8x4", "snorm8x4"} ->
           { <<v, 255 - v, (v + 85) % 256, (v + 170) % 256>> : v \in 0..255 }
      [] codec = "unorm16x4" ->
           { <<v \div 256, v % 256, 255 - (v \div 256), 255 - (v % 256),
               v % 256, v \div 256, 255 - (v % 256), 255 - (v \div 256)>>
             : v \in U16Samples }
      [] codec = "u16x2" ->
           { <<v, 255 - v, (v + 85) % 256, (v + 170) % 256>> : v \in 0..255 }
      [] OTHER ->
           { PatternBytes(seed, CodecSize(codec)) : seed \in Seeds }

InitCodec ==
    /\ vertex \in UNION { { [pc |-> "item", codec |-> codec, endian |-> en,
                            item |-> item, value |-> None, out |-> None]
                           : en \in Endians, item \in CodecItems(codec) }
                         : codec \in Codecs }
    /\ stream = Idle /\ index = Idle /\ morph = Idle /\ layout = Idle
    /\ mibl = Idle /\ map = Idle

\* The reader of the codec on the item's bytes.
DecodeItem ==
    /\ vertex.pc = "item"
    /\ vertex' = [vertex EXCEPT !.pc = "decoded",
                                !.value = read_item(vertex.codec, vertex.item, vertex.endian)]
    /\ UNCHANGED <<stream, index, morph, layout, mibl, map>>

\* The writer of the codec on the decoded value.
EncodeItem ==
    /\ vertex.pc = "decoded"
    /\ vertex' = [vertex EXCEPT !.pc = "encoded",
                                !.out = write_item(vertex.codec, vertex.value, vertex.endian)]
    /\ UNCHANGED <<stream, index, morph, layout, mibl, map>>

SpecCodec == InitCodec /\ [][DecodeItem \/ EncodeItem]_vars

\* C21: for every codec, encoding the decoded value of an item returns
\* the item's bytes, so for the normalized codecs every storable integer
\* comes back as itself, and decoding the encoded bytes returns the
\* decoded value again.
C21_CodecRoundTrip ==
    vertex.pc = "encoded" =>
        /\ vertex.out = vertex.item
        /\ read_item(vertex.codec, vertex.out, vertex.endian) = vertex.value

\* The signed bytes -128 and 127 have been decoded and encoded.
C21_Witness ==
    /\ vertex.pc = "encoded"
    /\ vertex.codec = "snorm8x4"
    /\ vertex.item[1] = 128
    /\ vertex.item[2] = 127
    /\ vertex.value[1].sign = 1
    /\ vertex.out[1] = 128

----------------------------------------------------------------------------
(* Offset-following reads (xc3_lib/src/lib.rs): parse_array and            *)
(* parse_string_ptr32 over a cursor [buf, pos].                            *)

MaxParseOffset == 14

MaxParseCount == 3

\* u32::read_options: four bytes at the position; a short read leaves the
\* position where it was.
read_u32(reader, endian) ==
    LET Read(r) ==
            IF ~IsOk(r) THEN [tag |-> "err", reader |-> reader]
            ELSE [tag |-> "ok", value |-> W32ToNat(W32FromBytes(r.value, endian)),
                  reader |-> [reader EXCEPT !.pos = @ + 4]]
    IN Read(ReadExact(reader.buf, reader.pos, 4))

\* Vec::<u16>::read_options with a count: the elements one after the
\* other; the element that cannot be read leaves the position at its
\* start.
RECURSIVE read_vec(_, _, _, _)
read_vec(reader, count, endian, values) ==
    LET Item(r) ==
            IF ~IsOk(r) THEN [tag |-> "err", reader |-> reader]
            ELSE read_vec([reader EXCEPT !.pos = @ + 2], count - 1, endian,
                          Append(values, U16FromBytes(r.value, endian)))
    IN IF count = 0 THEN [tag |-> "ok", value |-> values, reader |-> reader]
       ELSE Item(ReadExact(reader.buf, reader.pos, 2))

\* NullString::read_options: the bytes up to a zero byte; without one the
\* read fails at the end of the data.
read_null_string(reader) ==
    LET rest == { p \in (reader.pos + 1)..Len(reader.buf) : reader.buf[p] = 0 }
        Upto(p) == [tag |-> "ok", value |-> SubSeq(reader.buf, reader.pos + 1, p - 1),
                    reader |-> [reader EXCEPT !.pos = p]]
    IN IF rest = {}
       THEN [tag |-> "err", reader |-> [reader EXCEPT !.pos = Max(@, Len(reader.buf))]]
       ELSE Upto(CHOOSE p \in rest : \A q \in rest : p <= q)

\* parse_array: offset and count, then the elements at the offset, then
\* back to the position after the count.  Every `?` returns at once.
parse_array(reader, endian) ==
    LET Values(saved_pos, r) ==
            IF r.tag = "err" THEN r
            ELSE [r EXCEPT !.reader = [@ EXCEPT !.pos = saved_pos]]
        Count(offset, r) ==
            IF r.tag = "err" THEN r
            ELSE Values(r.reader.pos,
                        read_vec([r.reader EXCEPT !.pos = offset], r.value, endian, <<>>))
        Offset(r) ==
            IF r.tag = "err" THEN r ELSE Count(r.value, read_u32(r.reader, endian))
    IN Offset(read_u32(reader, endian))

\* parse_string_ptr32: the offset, then the string at base + offset, then
\* back to the position after the offset.
parse_string_ptr32(reader, endian, base) ==
    LET Value(saved_pos, r) ==
            IF r.tag = "err" THEN r
            ELSE [r EXCEPT !.reader = [@ EXCEPT !.pos = saved_pos]]
        Offset(r) ==
            IF r.tag = "err" THEN r
            ELSE Value(r.reader.pos,
                       read_null_string([r.reader EXCEPT !.pos = base + r.value]))
    IN Offset(read_u32(reader, endian))

\* Input data: bytes before the fields, the offset and count fields, and
\* the bytes after them, with or without a zero byte.
ParseBuffer(seed, start, offset, count, n, tail, endian) ==
    PatternBytes(seed, start) \o W32ToBytes(W32FromNat(offset), endian)
    \o W32ToBytes(W32FromNat(count), endian) \o PatternBytes(seed + 1, n) \o tail

InitParse ==
    /\ stream \in { [pc |-> "fields", endian |-> en, start |-> start, base |-> base,
                     reader |-> [buf |-> ParseBuffer(seed, start, offset, count, n, tail, en),
                                 pos |-> start],
                     result |-> None]
                    : en \in Endians, start \in {0, 2}, base \in {0, 4}, seed \in Seeds,
                      offset \in 0..MaxParseOffset, count \in 0..MaxParseCount,
                      n \in {0, 3}, tail \in {<<>>, <<0>>, <<0, 7>>} }
    /\ vertex = Idle /\ index = Idle /\ morph = Idle /\ layout = Idle
    /\ mibl = Idle /\ map = Idle

ParseArray ==
    /\ stream.pc = "fields"
    /\ LET Return(r) ==
               [stream EXCEPT !.pc = IF r.tag = "ok" THEN "array" ELSE "array_error",
                              !.reader = r.reader,
                              !.result = IF r.tag = "ok" THEN Ok(r.value) ELSE Err]
       IN stream' = Return(parse_array(stream.reader, stream.endian))
    /\ UNCHANGED <<vertex, index, morph, layout, mibl, map>>

ParseStringPtr32 ==
    /\ stream.pc = "fields"
    /\ LET Return(r) ==
               [stream EXCEPT !.pc = IF r.tag = "ok" THEN "string" ELSE "string_error",
                              !.reader = r.reader,
                              !.result = IF r.tag = "ok" THEN Ok(r.value) ELSE Err]
       IN stream' = Return(parse_string_ptr32(stream.reader, stream.endian, stream.base))
    /\ UNCHANGED <<vertex, index, morph, layout, mibl, map>>

SpecParse == InitParse /\ [][ParseArray \/ ParseStringPtr32]_vars

\* The inline fields of the read lie in the data: the nested read is made.
FieldsRead(n) == stream.start + n <= Len(stream.reader.buf)

\* C23: an offset-following read leaves the stream at the position
\* immediately after its inline offset and count fields, both when the
\* nested read succeeds and when it fails.
C23_PositionRestored ==
    /\ (stream.pc \in {"array", "array_error"} /\ FieldsRead(8))
           => stream.reader.pos = stream.start + 8
    /\ (stream.pc \in {"string", "string_error"} /\ FieldsRead(4))
           => stream.reader.pos = stream.start + 4

\* What holds of them: the position is restored when the nested read
\* succeeds.
PositionRestoredOnSuccess ==
    /\ stream.pc = "array" => stream.reader.pos = stream.start + 8
    /\ stream.pc = "string" => stream.reader.pos = stream.start + 4

----------------------------------------------------------------------------
(* Models::from_models_legacy: the materials of a legacy model converted   *)
(* to the neutral model.                                                   *)

MaxMaterials == 2

\* xc3_lib::mxmd::legacy::UnkPassType
UnkPassTypes == {"Unk0", "Unk1", "Unk2", "Unk3", "Unk5", "Unk8"}

\* The pass type of a material: the match on m.techniques[0].unk1, which
\* panics for a material without technique.
pass_type(m) ==
    IF Len(m.techniques) = 0 THEN Panic
    ELSE Ok(CASE m.techniques[1].unk1 = "Unk0" -> "Unk0"
              [] m.techniques[1].unk1 = "Unk1" -> "Unk1"
              [] OTHER -> "Unk0")

\* The technique lists of a material.
LegacyTechniques ==
    {<< >>} \cup { << [unk1 |-> t] >> : t \in UnkPassTypes }
            \cup { << [unk1 |-> t], [unk1 |-> "Unk0"] >> : t \in UnkPassTypes }

InitLegacy ==
    /\ layout \in { [pc |-> "legacy", materials |-> ms, converted |-> None]
                    : ms \in UNION { [1..n -> LegacyTechniques] : n \in 0..MaxMaterials } }
    /\ stream = Idle /\ vertex = Idle /\ index = Idle /\ morph = Idle
    /\ mibl = Idle /\ map = Idle

\* from_models_legacy: one neutral material per legacy material.
FromModelsLegacy ==
    /\ layout.pc = "legacy"
    /\ LET Collect(ps) ==
               IF \E k \in 1..Len(ps) : ps[k].tag = "panic"
               THEN [layout EXCEPT !.pc = "panic"]
               ELSE [layout EXCEPT !.pc = "converted",
                                   !.converted = [k \in 1..Len(ps) |->
                                                     [pass_type |-> ps[k].value]]]
       IN layout' = Collect([k \in 1..Len(layout.materials) |->
                                pass_type([techniques |-> layout.materials[k]])])
    /\ UNCHANGED <<stream, vertex, index, morph, mibl, map>>

SpecLegacy == InitLegacy /\ [][FromModelsLegacy]_vars

\* C24: a pass type without neutral counterpart is surfaced and never
\* replaced by a default: two materials whose input pass types differ
\* never receive the same neutral pass type.
C24_PassTypeSurfaced ==
    layout.pc = "converted" =>
        \A i, j \in 1..Len(layout.materials) :
            layout.materials[i][1].unk1 # layout.materials[j][1].unk1
                => layout.converted[i].pass_type # layout.converted[j].pass_type

\* What the conversion does: Unk1 stays Unk1 and every other pass type
\* becomes Unk0.
PassTypeDefaulted ==
    layout.pc = "converted" =>
        \A i \in 1..Len(layout.materials) :
            layout.converted[i].pass_type
              = IF layout.materials[i][1].unk1 = "Unk1" THEN "Unk1" ELSE "Unk0"

----------------------------------------------------------------------------
(* Skeleton (xc3_model/src/skeleton.rs).  A transform is a product of      *)
(* named matrices, kept as the sequence of its factors; parent indices     *)
(* count from 0.                                                           *)

MaxBones == 2

\* Mat4 * Mat4
MatMul(a, b) == a \o b

\* The first position of a name in the bones, from 0, or None.
BonePosition(bones, name) ==
    IF \E k \in 1..Len(bones) : bones[k].name = name
    THEN Ok((CHOOSE k \in 1..Len(bones) :
                /\ bones[k].name = name
                /\ \A j \in 1..(k - 1) : bones[j].name # name) - 1)
    ELSE None

\* The bones of the character skeleton: parent_index is None for a
\* negative parent.
SkelBones(skel) ==
    [k \in 1..Len(skel) |->
        [name |-> skel[k].name, transform |-> << <<"skel", k - 1>> >>,
         parent_index |-> IF skel[k].parent < 0 THEN None ELSE Ok(skel[k].parent)]]

\* The bones of the model's skeleton that are missing are appended
\* without parent.
RECURSIVE MergeBones(_, _, _)
MergeBones(bones, skeleton, k) ==
    IF k > Len(skeleton.bones) THEN bones
    ELSE IF BonePosition(bones, skeleton.bones[k]) # None
    THEN MergeBones(bones, skeleton, k + 1)
    ELSE MergeBones(Append(bones, [name |-> skeleton.bones[k],
                                   transform |-> << <<"mxmd", k - 1>> >>,
                                   parent_index |-> None]),
                    skeleton, k + 1)

\* The AS_ bones: the bone named by bone_index takes the model's transform
\* and the position of the bone named by parent_index as its parent.  An
\* index outside skeleton.bones panics.
RECURSIVE AsBones(_, _, _)
AsBones(bones, skeleton, k) ==
    LET Parent(as_bone, at) ==
            AsBones([bones EXCEPT ![at + 1] =
                        [@ EXCEPT !.transform = << <<"mxmd", as_bone.bone_index>> >>,
                                  !.parent_index =
                                      BonePosition(bones,
                                                   skeleton.bones[as_bone.parent_index + 1])]],
                    skeleton, k + 1)
        Find(as_bone, found) ==
            IF found = None THEN AsBones(bones, skeleton, k + 1)
            ELSE Parent(as_bone, found.value)
        Bone(as_bone) ==
            IF as_bone.bone_index >= Len(skeleton.bones)
               \/ as_bone.parent_index >= Len(skeleton.bones)
            THEN Panic
            ELSE Find(as_bone, BonePosition(bones, skeleton.bones[as_bone.bone_index + 1]))
    IN IF k > Len(skeleton.as_bone_data.value) THEN Ok(bones)
       ELSE Bone(skeleton.as_bone_data.value[k])

\* Skeleton::from_skel
from_skel(skel, skeleton) ==
    LET Merged(bones) ==
            IF skeleton.as_bone_data = None THEN Ok(bones)
            ELSE AsBones(bones, skeleton, 1)
    IN Merged(MergeBones(SkelBones(skel), skeleton, 1))

\* The loop of world_transforms from bone i on.
RECURSIVE world_transforms_from(_, _, _)
world_transforms_from(bones, final_transforms, i) ==
    IF i > Len(bones) THEN Ok(final_transforms)
    ELSE IF bones[i].parent_index = None
    THEN world_transforms_from(bones, final_transforms, i + 1)
    ELSE IF bones[i].parent_index.value >= Len(bones) THEN Panic
    ELSE world_transforms_from(
            bones,
            [final_transforms EXCEPT
                ![i] = MatMul(final_transforms[bones[i].parent_index.value + 1],
                              bones[i].transform)],
            i + 1)

\* Skeleton::world_transforms
world_transforms(bones) ==
    world_transforms_from(bones, [k \in 1..Len(bones) |-> bones[k].transform], 1)

\* The names of the bones of the character skeleton.
SkelNames == { <<"A">>, <<"A", "B">>, <<"B", "A">>, <<"A", "B", "C">> }

\* Character skeletons of up to MaxBones bones; a parent is -1 or the
\* index of a bone.
Skels ==
    {<< >>} \cup
    UNION { { [k \in 1..Len(names) |-> [name |-> names[k], parent |-> parents[k]]]
              : parents \in [1..Len(names) -> -1..(Len(names) - 1)] }
            : names \in { ns \in SkelNames : Len(ns) <= MaxBones } }

AsBoneLists ==
    LET as_bones == [bone_index : 0..2, parent_index : 0..2]
    IN {<< >>} \cup { <<a>> : a \in as_bones } \cup { <<a, b>> : a, b \in as_bones }

\* The skeleton of the model: bone names and the AS_ bone table.
MxmdSkeletons ==
    { [bones |-> bones, as_bone_data |-> data]
      : bones \in { << >>, <<"A", "B">>, <<"A", "B", "C">>, <<"C", "A">> },
        data \in {None} \cup { Ok(l) : l \in AsBoneLists } }

InitSkeleton ==
    /\ index \in { [pc |-> "skel", skel |-> skel, skeleton |-> skeleton,
                    bones |-> None, world |-> None]
                   : skel \in Skels, skeleton \in MxmdSkeletons }
    /\ stream = Idle /\ vertex = Idle /\ morph = Idle /\ layout = Idle
    /\ mibl = Idle /\ map = Idle

FromSkel ==
    /\ index.pc = "skel"
    /\ LET Return(r) ==
               IF r.tag = "panic" THEN [index EXCEPT !.pc = "panic"]
               ELSE [index EXCEPT !.pc = "built", !.bones = r.value]
       IN index' = Return(from_skel(index.skel, index.skeleton))
    /\ UNCHANGED <<stream, vertex, morph, layout, mibl, map>>

WorldTransforms ==
    /\ index.pc = "built"
    /\ LET Return(r) ==
               IF r.tag = "panic" THEN [index EXCEPT !.pc = "panic"]
               ELSE [index EXCEPT !.pc = "world", !.world = r.value]
       IN index' = Return(world_transforms(index.bones))
    /\ UNCHANGED <<stream, vertex, morph, layout, mibl, map>>

SpecSkeleton == InitSkeleton /\ [][FromSkel \/ WorldTransforms]_vars

\* In the character skeleton every parent precedes its child.
SkelOrdered(skel) == \A k \in 1..Len(skel) : skel[k].parent < k - 1

\* C25: in a Skeleton built by from_skel from a character skeleton whose
\* parents precede their children, each bone's parent_index is a valid
\* index smaller than the bone's own index, also for the bones appended
\* from the model and the bones re-parented from the AS_ bone table.
C25_ParentsPrecede ==
    (index.pc \in {"built", "world"} /\ SkelOrdered(index.skel)) =>
        \A k \in 1..Len(index.bones) :
            \/ index.bones[k].parent_index = None
            \/ index.bones[k].parent_index.value < k - 1

\* What holds of from_skel: without AS_ bone table the parents precede
\* their children.
ParentsPrecedeWithoutAsBones ==
    (/\ index.pc \in {"built", "world"}
     /\ SkelOrdered(index.skel)
     /\ index.skeleton.as_bone_data = None) =>
        \A k \in 1..Len(index.bones) :
            \/ index.bones[k].parent_index = None
            \/ index.bones[k].parent_index.value < k - 1

\* C27: world_transforms returns for each bone the accumulated transform
\* along its ancestor chain: world[i] = world[parent(i)] * local[i] with
\* the parent's final world transform, and world[i] = local[i] for a bone
\* without parent.
C27_WorldTransforms ==
    index.pc = "world" =>
        \A k \in 1..Len(index.bones) :
            index.world[k]
              = IF index.bones[k].parent_index = None THEN index.bones[k].transform
                ELSE MatMul(index.world[index.bones[k].parent_index.value + 1],
                            index.bones[k].transform)

\* What holds of world_transforms: the same, for a skeleton whose parents
\* precede their children.
WorldTransformsOrdered ==
    (/\ index.pc = "world"
     /\ \A k \in 1..Len(index.bones) :
           \/ index.bones[k].parent_index = None
           \/ index.bones[k].parent_index.value < k - 1) =>
        \A k \in 1..Len(index.bones) :
            index.world[k]
              = IF index.bones[k].parent_index = None THEN index.bones[k].transform
                ELSE MatMul(index.world[index.bones[k].parent_index.value + 1],
                            index.bones[k].transform)

====
